---- MODULE Spec2Model ----
(***************************************************************************)
(* Case lifecycle, participation gate and reward settlement of the         *)
(* moral-duel API, as implemented by CaseService, the background jobs      *)
(* (case_generator, transaction_monitor), RewardService and the            *)
(* /profile/rewards/claim route.  Every `await` on the store is one step:  *)
(* requests and jobs interleave exactly at those points.                   *)
(***************************************************************************)
EXTENDS Integers, Sequences, FiniteSets, TLC

\* ---------------------------------------------------------------- bounds
NUsers == 2          \* requesting users 1..NUsers
NSlots == 2          \* HTTP requests that may be in flight together
MaxCases == 2        \* case rows (the seeded one included)
SeedArgs == 4        \* arguments the seeded case starts with
MaxArgs == 5         \* argument rows
MaxTime == 4         \* last clock value; the clock counts half days from 1
NRewards == 2        \* reward rows of the settlement store
MaxRequests == 2     \* HTTP requests admitted in one behaviour

\* ------------------------------------------------------- program constants
None == 0                          \* Python None / SQL NULL (falsy)
ClosePeriod == 2                   \* timedelta(hours=24), in half days
MaxLikes == 3                      \* likes per user per case
FailAfter == 2                     \* timedelta(hours=24), in half days
MinConfirmations == 1
BatchLimit == 100                  \* take=100
MIN_PARTICIPANTS_FOR_CREATOR == 100

Users == 1..NUsers
Slots == 1..NSlots
SeedUser == NUsers + 1             \* author of the seeded arguments
Sides == {"YES", "NO"}

VARIABLES
    cases,       \* Seq of Case rows; the id is the index
    votes,       \* Seq of UserVote rows
    arguments,   \* Seq of Argument rows; the id is the index (creation order)
    arglikes,    \* set of ArgumentVote rows <<user_id, argument_id>> (unique key)
    rewards,     \* Seq of Reward rows; the id is the index
    points,      \* User.total_points
    credits,     \* per reward: how often its amount was added to total_points
    now,         \* datetime.utcnow()
    req,         \* per slot: the HTTP request in flight and its locals
    sweep,       \* close_expired_cases_job: position and locals
    monitor,     \* monitor_transactions_job: position and locals
    nreq         \* HTTP requests admitted so far

vars == <<cases, votes, arguments, arglikes, rewards, points, credits, now,
          req, sweep, monitor, nreq>>

store == <<cases, votes, arguments, arglikes, rewards, points, credits>>

\* ---------------------------------------------------------------- helpers
Range(s) == {s[i] : i \in DOMAIN s}

SeqSum(s) == LET RECURSIVE go(_, _)
                 go(lo, hi) ==
                     IF lo > hi THEN 0
                     ELSE IF lo = hi THEN s[lo]
                     ELSE LET mid == (lo + hi) \div 2
                          IN go(lo, mid) + go(mid + 1, hi)
             IN go(1, Len(s))

\* list.remove(x): drops the first occurrence
RemoveFirst(s, x) ==
    LET hits == {i \in DOMAIN s : s[i] = x}
    IN IF hits = {} THEN s
       ELSE LET k == CHOOSE i \in hits : \A j \in hits : i <= j
            IN [i \in 1..(Len(s) - 1) |-> IF i < k THEN s[i] ELSE s[i + 1]]

CaseExists(c) == c \in DOMAIN cases
ArgExists(a) == a \in DOMAIN arguments

\* db.uservote.find_unique(user_id_case_id): index of the row, or None
VoteIdx(u, c) ==
    LET hits == {i \in DOMAIN votes : votes[i].user_id = u /\ votes[i].case_id = c}
    IN IF hits = {} THEN None ELSE CHOOSE i \in hits : \A j \in hits : i <= j

IdleReq == [op |-> "idle", pc |-> "idle", user |-> None, case |-> None,
            arg |-> None, side |-> "YES", ids |-> {}, tx |-> None,
            c_tp |-> 0, c_yes |-> 0, c_no |-> 0, a_votes |-> 0, liked |-> <<>>,
            wallet |-> FALSE, n |-> 0]

\* sel: the ids the run selected; erred: those whose processing raised
IdleSweep == [pc |-> "idle", now |-> None, queue |-> <<>>, top |-> {},
              sel |-> {}, erred |-> {}]

\* erred: the ids whose processing raised in the run
IdleMonitor == [pc |-> "idle", queue |-> <<>>, erred |-> {}]

\* a request ends: raise ValueError / HTTPException, or return the response
Fail(p) == req' = [req EXCEPT ![p].pc = "err"]
Goto(p, l) == req' = [req EXCEPT ![p].pc = l]

\* ------------------------------------------------------------ case rows
\* AIService: sha256 of f"{verdict}|{reasoning}"; a digest is modelled as
\* the tagged text it digests, so equal hashes mean equal inputs
VerdictHash(verdict, reasoning) == "sha256:" \o verdict \o "|" \o reasoning

\* the reasoning and confidence the generator stores next to a verdict when
\* the scenario does not vary them; a confidence 0.0..1.0 is held in tenths
StockReasoning(verdict) == IF verdict = "" THEN "" ELSE "because " \o verdict

StockConfidence(verdict) ==
    IF verdict = "" THEN None ELSE IF verdict = "YES" THEN 9 ELSE 7

NewCase(status, closes, creator, aigen, verdict, tx) ==
    [status |-> status, closes_at |-> closes, closed_at |-> None,
     created_by_id |-> creator, is_ai_generated |-> aigen,
     ai_verdict |-> verdict,
     ai_verdict_reasoning |-> StockReasoning(verdict),
     ai_confidence |-> StockConfidence(verdict),
     verdict_hash |-> IF verdict = "" THEN ""
                      ELSE VerdictHash(verdict, StockReasoning(verdict)),
     blockchain_tx_hash |-> tx,
     yes_votes |-> 0, no_votes |-> 0, total_participants |-> 0,
     reward_pool |-> 0]

\* mutant: every new case is active
CreateStatusActive(is_ai_generated) == "active"

\* CaseService.create_case: the status and closes_at of a new row
CreateStatus(is_ai_generated) ==
    IF is_ai_generated THEN "active" ELSE "pending_moderation"

\* POST /cases: moderation, then CaseService.create_case(is_ai_generated=False)
CreateCase(u) ==
    /\ Len(cases) < MaxCases
    /\ \E approved \in BOOLEAN :
         IF ~approved
         THEN UNCHANGED cases
         ELSE LET st == CreateStatus(FALSE)
                  cl == IF st = "active" THEN now + ClosePeriod ELSE None
              IN cases' = Append(cases, NewCase(st, cl, u, FALSE, "", ""))
    /\ UNCHANGED <<votes, arguments, arglikes, rewards, points, credits, now,
                   req, sweep, monitor, nreq>>

\* what the commit of a verdict hash can meet: the service switched off, the
\* contract call succeeding, the contract call failing, an exception outside
\* the contract call
CommitOutcomes == {"disabled", "committed", "sdk_failed", "raised"}

\* blockchain_service.commit_verdict_hash: the tx_hash the job stores.  The
\* switched-off service and the fallback after a failed contract call return a
\* digest computed locally, a string like the hash of a ledger transaction;
\* when the call raises, the job goes on with blockchain_tx = None
CommitVerdictHash(outcome) ==
    CASE outcome \in {"committed", "disabled", "sdk_failed"} -> "tx"
      [] outcome = "raised" -> ""

\* generate_ai_case_job: verdict first, best-effort ledger commit, then the row
GenerateAICase ==
    /\ Len(cases) < MaxCases
    /\ \E generated \in BOOLEAN, outcome \in CommitOutcomes, verdict \in Sides :
         IF ~generated
         THEN UNCHANGED cases
         ELSE cases' = Append(cases,
                 NewCase("active", now + ClosePeriod, None, TRUE, verdict,
                         CommitVerdictHash(outcome)))
    /\ UNCHANGED <<votes, arguments, arglikes, rewards, points, credits, now,
                   req, sweep, monitor, nreq>>

\* the clock
Tick ==
    /\ now < MaxTime
    /\ now' = now + 1
    /\ UNCHANGED <<store, req, sweep, monitor, nreq>>

\* the response is sent; the slot is free again
Return(p) ==
    /\ req[p].pc \in {"ok", "err"}
    /\ req' = [req EXCEPT ![p] = IdleReq]
    /\ UNCHANGED <<store, now, sweep, monitor, nreq>>

\* ------------------------------------------------- CaseService.vote_on_case
StartVote(p) ==
    /\ req[p].op = "idle"
    /\ nreq < MaxRequests
    /\ nreq' = nreq + 1
    /\ \E u \in Users, c \in 1..MaxCases, s \in Sides :
         req' = [req EXCEPT ![p] = [IdleReq EXCEPT !.op = "vote", !.pc = "find_case",
                                    !.user = u, !.case = c, !.side = s]]
    /\ UNCHANGED <<store, now, sweep, monitor>>

\* may this case be voted on now (lines 121-129)
VoteOpen(c) ==
    /\ c.status = "active"
    /\ ~(c.closes_at # None /\ c.closes_at < now)

\* db.case.find_unique and the checks on the row read
VoteFindCase(p) ==
    /\ req[p].op = "vote" /\ req[p].pc = "find_case"
    /\ IF ~CaseExists(req[p].case) THEN Fail(p)
       ELSE LET c == cases[req[p].case]
            IN IF ~VoteOpen(c) THEN Fail(p)
               ELSE req' = [req EXCEPT ![p].pc = "find_vote",
                                       ![p].c_tp = c.total_participants,
                                       ![p].c_yes = c.yes_votes,
                                       ![p].c_no = c.no_votes]
    /\ UNCHANGED <<store, now, sweep, monitor, nreq>>

\* db.uservote.find_unique: already voted?
VoteFindExisting(p) ==
    /\ req[p].op = "vote" /\ req[p].pc = "find_vote"
    /\ IF VoteIdx(req[p].user, req[p].case) # None THEN Fail(p)
       ELSE Goto(p, "create_vote")
    /\ UNCHANGED <<store, now, sweep, monitor, nreq>>

\* mutant: UserVote without its unique key
VoteKeyNotUnique(u, c) == TRUE

\* the unique key (user_id, case_id) of UserVote: does the insert go through
VoteKeyFree(u, c) == VoteIdx(u, c) = None

\* db.uservote.create
VoteCreate(p) ==
    /\ req[p].op = "vote" /\ req[p].pc = "create_vote"
    /\ IF VoteKeyFree(req[p].user, req[p].case)
       THEN /\ votes' = Append(votes, [user_id |-> req[p].user,
                                       case_id |-> req[p].case,
                                       side |-> req[p].side,
                                       liked_arguments |-> <<>>,
                                       has_submitted_arg |-> FALSE])
            /\ Goto(p, "update_case")
       ELSE /\ Fail(p)
            /\ UNCHANGED votes
    /\ UNCHANGED <<cases, arguments, arglikes, rewards, points, credits, now,
                   sweep, monitor, nreq>>

\* mutant: the whole case object read at the start is written back, status included
VoteCountersWholeRow(r, c) ==
    [c EXCEPT !.status = "active", !.total_participants = r.c_tp + 1,
              !.yes_votes = r.c_yes + (IF r.side = "YES" THEN 1 ELSE 0),
              !.no_votes = r.c_no + (IF r.side = "YES" THEN 0 ELSE 1)]

\* update_data (lines 149-156): the counters written back, from the row read earlier
VoteCounters(r, c) ==
    IF r.side = "YES"
    THEN [c EXCEPT !.total_participants = r.c_tp + 1, !.yes_votes = r.c_yes + 1]
    ELSE [c EXCEPT !.total_participants = r.c_tp + 1, !.no_votes = r.c_no + 1]

\* db.case.update
VoteUpdateCase(p) ==
    /\ req[p].op = "vote" /\ req[p].pc = "update_case"
    /\ cases' = [cases EXCEPT ![req[p].case] = VoteCounters(req[p], @)]
    /\ Goto(p, "ok")
    /\ UNCHANGED <<votes, arguments, arglikes, rewards, points, credits, now,
                   sweep, monitor, nreq>>

\* --------------------------------------------- CaseService.vote_on_argument
StartLike(p) ==
    /\ req[p].op = "idle"
    /\ nreq < MaxRequests
    /\ nreq' = nreq + 1
    /\ \E u \in Users, c \in 1..MaxCases, a \in 1..MaxArgs :
         req' = [req EXCEPT ![p] = [IdleReq EXCEPT !.op = "like", !.pc = "find_arg",
                                    !.user = u, !.case = c, !.arg = a]]
    /\ UNCHANGED <<store, now, sweep, monitor>>

\* db.argument.find_unique and the case_id check; keeps argument.votes as read
LikeFindArg(p) ==
    /\ req[p].op = "like" /\ req[p].pc = "find_arg"
    /\ IF ~ArgExists(req[p].arg) THEN Fail(p)
       ELSE IF arguments[req[p].arg].case_id # req[p].case THEN Fail(p)
       ELSE req' = [req EXCEPT ![p].pc = "find_case",
                               ![p].a_votes = arguments[req[p].arg].votes]
    /\ UNCHANGED <<store, now, sweep, monitor, nreq>>

LikeCaseAnyStatus(c) == CaseExists(c)

\* not case or case.status != ACTIVE, negated
LikeCaseActive(c) == CaseExists(c) /\ cases[c].status = "active"

\* db.case.find_unique: the case must be active
LikeFindCase(p) ==
    /\ req[p].op = "like" /\ req[p].pc = "find_case"
    /\ IF ~LikeCaseActive(req[p].case)
       THEN Fail(p)
       ELSE Goto(p, "find_vote")
    /\ UNCHANGED <<store, now, sweep, monitor, nreq>>

\* db.uservote.find_unique: must have voted; keeps liked_arguments as read
LikeFindVote(p) ==
    /\ req[p].op = "like" /\ req[p].pc = "find_vote"
    /\ LET i == VoteIdx(req[p].user, req[p].case)
       IN IF i = None THEN Fail(p)
          ELSE req' = [req EXCEPT ![p].pc = "find_like",
                                  ![p].liked = votes[i].liked_arguments]
    /\ UNCHANGED <<store, now, sweep, monitor, nreq>>

\* mutant: the limit check off by one
LikeLimitOffByOne(liked) == Len(liked) > MaxLikes

\* len(liked_arguments) >= 3 (line 261)
LikeLimitReached(liked) == Len(liked) >= MaxLikes

\* db.argumentvote.find_unique, then the limit check on the list read before
LikeFindExisting(p) ==
    /\ req[p].op = "like" /\ req[p].pc = "find_like"
    /\ IF <<req[p].user, req[p].arg>> \in arglikes THEN Fail(p)
       ELSE IF LikeLimitReached(req[p].liked) THEN Fail(p)
       ELSE Goto(p, "create_like")
    /\ UNCHANGED <<store, now, sweep, monitor, nreq>>

\* db.argumentvote.create; the unique key (user_id, argument_id) rejects a second row
LikeCreate(p) ==
    /\ req[p].op = "like" /\ req[p].pc = "create_like"
    /\ IF <<req[p].user, req[p].arg>> \in arglikes
       THEN /\ Fail(p)
            /\ UNCHANGED arglikes
       ELSE /\ arglikes' = arglikes \cup {<<req[p].user, req[p].arg>>}
            /\ Goto(p, "update_arg")
    /\ UNCHANGED <<cases, votes, arguments, rewards, points, credits, now,
                   sweep, monitor, nreq>>

\* data={"votes": argument.votes + 1}, from the row read at the start
LikeCount(r) == r.a_votes + 1

\* db.argument.update
LikeUpdateArg(p) ==
    /\ req[p].op = "like" /\ req[p].pc = "update_arg"
    /\ arguments' = [arguments EXCEPT ![req[p].arg].votes = LikeCount(req[p])]
    /\ Goto(p, "update_vote")
    /\ UNCHANGED <<cases, votes, arglikes, rewards, points, credits, now,
                   sweep, monitor, nreq>>

\* liked_arguments.append(argument_id); db.uservote.update
LikeUpdateVote(p) ==
    /\ req[p].op = "like" /\ req[p].pc = "update_vote"
    /\ LET i == VoteIdx(req[p].user, req[p].case)
       IN votes' = [votes EXCEPT ![i].liked_arguments = Append(req[p].liked, req[p].arg)]
    /\ Goto(p, "ok")
    /\ UNCHANGED <<cases, arguments, arglikes, rewards, points, credits, now,
                   sweep, monitor, nreq>>

\* ----------------------------------------------- CaseService.unvote_argument
StartUnlike(p) ==
    /\ req[p].op = "idle"
    /\ nreq < MaxRequests
    /\ nreq' = nreq + 1
    /\ \E u \in Users, c \in 1..MaxCases, a \in 1..MaxArgs :
         req' = [req EXCEPT ![p] = [IdleReq EXCEPT !.op = "unlike", !.pc = "find_arg",
                                    !.user = u, !.case = c, !.arg = a]]
    /\ UNCHANGED <<store, now, sweep, monitor>>

UnlikeFindArg(p) ==
    /\ req[p].op = "unlike" /\ req[p].pc = "find_arg"
    /\ IF ~ArgExists(req[p].arg) THEN Fail(p)
       ELSE IF arguments[req[p].arg].case_id # req[p].case THEN Fail(p)
       ELSE req' = [req EXCEPT ![p].pc = "find_like",
                               ![p].a_votes = arguments[req[p].arg].votes]
    /\ UNCHANGED <<store, now, sweep, monitor, nreq>>

UnlikeFindExisting(p) ==
    /\ req[p].op = "unlike" /\ req[p].pc = "find_like"
    /\ IF <<req[p].user, req[p].arg>> \notin arglikes THEN Fail(p)
       ELSE Goto(p, "delete_like")
    /\ UNCHANGED <<store, now, sweep, monitor, nreq>>

\* db.argumentvote.delete (a row already gone is not an error: delete returns None)
UnlikeDelete(p) ==
    /\ req[p].op = "unlike" /\ req[p].pc = "delete_like"
    /\ arglikes' = arglikes \ {<<req[p].user, req[p].arg>>}
    /\ Goto(p, "update_arg")
    /\ UNCHANGED <<cases, votes, arguments, rewards, points, credits, now,
                   sweep, monitor, nreq>>

\* mutant: the count is written back as read
UnlikeCountKept(r) == r.a_votes

\* data={"votes": max(0, argument.votes - 1)}
UnlikeCount(r) == IF r.a_votes - 1 > 0 THEN r.a_votes - 1 ELSE 0

UnlikeUpdateArg(p) ==
    /\ req[p].op = "unlike" /\ req[p].pc = "update_arg"
    /\ arguments' = [arguments EXCEPT ![req[p].arg].votes = UnlikeCount(req[p])]
    /\ Goto(p, "find_vote")
    /\ UNCHANGED <<cases, votes, arglikes, rewards, points, credits, now,
                   sweep, monitor, nreq>>

\* db.uservote.find_unique; the list is rewritten only if it holds the id
UnlikeFindVote(p) ==
    /\ req[p].op = "unlike" /\ req[p].pc = "find_vote"
    /\ LET i == VoteIdx(req[p].user, req[p].case)
       IN IF i # None /\ req[p].arg \in Range(votes[i].liked_arguments)
          THEN req' = [req EXCEPT ![p].pc = "update_vote",
                          ![p].liked = RemoveFirst(votes[i].liked_arguments, req[p].arg)]
          ELSE Goto(p, "ok")
    /\ UNCHANGED <<store, now, sweep, monitor, nreq>>

UnlikeUpdateVote(p) ==
    /\ req[p].op = "unlike" /\ req[p].pc = "update_vote"
    /\ LET i == VoteIdx(req[p].user, req[p].case)
       IN votes' = [votes EXCEPT ![i].liked_arguments = req[p].liked]
    /\ Goto(p, "ok")
    /\ UNCHANGED <<cases, arguments, arglikes, rewards, points, credits, now,
                   sweep, monitor, nreq>>

\* ----------------------------------------------- CaseService.submit_argument
StartSubmit(p) ==
    /\ req[p].op = "idle"
    /\ nreq < MaxRequests
    /\ nreq' = nreq + 1
    /\ \E u \in Users, c \in 1..MaxCases, s \in Sides :
         req' = [req EXCEPT ![p] = [IdleReq EXCEPT !.op = "submit", !.pc = "find_case",
                                    !.user = u, !.case = c, !.side = s]]
    /\ UNCHANGED <<store, now, sweep, monitor>>

SubmitFindCase(p) ==
    /\ req[p].op = "submit" /\ req[p].pc = "find_case"
    /\ IF ~CaseExists(req[p].case) \/ cases[req[p].case].status # "active"
       THEN Fail(p)
       ELSE Goto(p, "find_vote")
    /\ UNCHANGED <<store, now, sweep, monitor, nreq>>

\* mutant: two likes are enough
SubmitAllowedTwoLikes(v) ==
    /\ ~v.has_submitted_arg
    /\ ~(Len(v.liked_arguments) < MaxLikes - 1)

\* mutant: one like is enough
SubmitAllowedOneLike(v) ==
    /\ ~v.has_submitted_arg
    /\ ~(Len(v.liked_arguments) < 1)

\* the checks on the UserVote row (lines 188-198)
SubmitAllowed(v) ==
    /\ ~v.has_submitted_arg
    /\ ~(Len(v.liked_arguments) < MaxLikes)

SubmitFindVote(p) ==
    /\ req[p].op = "submit" /\ req[p].pc = "find_vote"
    /\ LET i == VoteIdx(req[p].user, req[p].case)
       IN IF i = None THEN Fail(p)
          ELSE IF ~SubmitAllowed(votes[i]) THEN Fail(p)
          ELSE Goto(p, "create_arg")
    /\ UNCHANGED <<store, now, sweep, monitor, nreq>>

NewArgument(c, u, s) ==
    [case_id |-> c, user_id |-> u, side |-> s, votes |-> 0, is_top_3 |-> FALSE]

\* db.argument.create
SubmitCreate(p) ==
    /\ req[p].op = "submit" /\ req[p].pc = "create_arg"
    /\ Len(arguments) < MaxArgs
    /\ arguments' = Append(arguments, NewArgument(req[p].case, req[p].user, req[p].side))
    /\ Goto(p, "update_vote")
    /\ UNCHANGED <<cases, votes, arglikes, rewards, points, credits, now,
                   sweep, monitor, nreq>>

\* db.uservote.update(has_submitted_arg=True)
SubmitUpdateVote(p) ==
    /\ req[p].op = "submit" /\ req[p].pc = "update_vote"
    /\ LET i == VoteIdx(req[p].user, req[p].case)
       IN votes' = [votes EXCEPT ![i].has_submitted_arg = TRUE]
    /\ Goto(p, "ok")
    /\ UNCHANGED <<cases, arguments, arglikes, rewards, points, credits, now,
                   sweep, monitor, nreq>>

\* ------------------------------------------------- close_expired_cases_job
\* closes_at reached, whatever the status
ExpiredAnyStatus(c, t) == c.closes_at # None /\ c.closes_at <= t

\* where={"status": "active", "closes_at": {"lte": now}}
Expired(c, t) == c.status = "active" /\ c.closes_at # None /\ c.closes_at <= t

CaseArgs(c) == {a \in DOMAIN arguments : arguments[a].case_id = c}

Min(x, y) == IF x < y THEN x ELSE y

\* arguments[:3] of find_many(order={"votes": "desc"}): the database fixes no order
\* among equal votes, so any 3-prefix of a descending order may come back
TopSetsOf(args, c) ==
    LET S == {a \in DOMAIN args : args[a].case_id = c}
    IN {T \in SUBSET S :
          /\ Cardinality(T) = Min(3, Cardinality(S))
          /\ \A a \in T, b \in S \ T : args[a].votes >= args[b].votes}

TopSets(c) == TopSetsOf(arguments, c)

\* the rows the job selects
SweepSelect(t) ==
    SelectSeq([i \in 1..Len(cases) |-> i], LAMBDA i : Expired(cases[i], t))

SweepStart ==
    /\ sweep.pc = "idle"
    /\ LET ids == SweepSelect(now)
       IN IF ids = <<>>
          THEN UNCHANGED sweep
          ELSE sweep' = [pc |-> "find_args", now |-> now,
                         queue |-> [k \in 1..Len(ids) |->
                                       [id |-> ids[k], row |-> cases[ids[k]]]],
                         top |-> {}, sel |-> Range(ids), erred |-> {}]
    /\ UNCHANGED <<store, now, req, monitor, nreq>>

SweepFindArgs ==
    /\ sweep.pc = "find_args"
    /\ \E T \in TopSets(sweep.queue[1].id) :
         sweep' = [sweep EXCEPT !.top = T,
                                !.pc = IF T = {} THEN "close_case" ELSE "mark_top"]
    /\ UNCHANGED <<store, now, req, monitor, nreq>>

\* db.argument.update_many(is_top_3=True)
SweepMarkTop ==
    /\ sweep.pc = "mark_top"
    /\ arguments' = [a \in DOMAIN arguments |->
                        IF a \in sweep.top
                        THEN [arguments[a] EXCEPT !.is_top_3 = TRUE]
                        ELSE arguments[a]]
    /\ sweep' = [sweep EXCEPT !.pc = "close_case"]
    /\ UNCHANGED <<cases, votes, arglikes, rewards, points, credits, now,
                   req, monitor, nreq>>

ClosedRowBlanksVerdict(c, t) ==
    [c EXCEPT !.status = "closed", !.closed_at = t, !.ai_verdict = ""]

\* data={"status": "closed", "closed_at": now}
ClosedRow(c, t) == [c EXCEPT !.status = "closed", !.closed_at = t]

SweepCloseCase ==
    /\ sweep.pc = "close_case"
    /\ cases' = [cases EXCEPT ![sweep.queue[1].id] = ClosedRow(@, sweep.now)]
    /\ sweep' = [sweep EXCEPT !.pc = "rewards"]
    /\ UNCHANGED <<votes, arguments, arglikes, rewards, points, credits, now,
                   req, monitor, nreq>>

\* ---------------------------------------------------------- RewardService
\* calculate_rewards raises for a case object that is not closed or has no verdict
RewardRaises(c) == c.status # "closed" \/ c.ai_verdict = ""

Pct(amount, pct) == (amount * pct) \div 100

CaseVotes(c) == SelectSeq(votes, LAMBDA v : v.case_id = c)

\* descending orders of the case's arguments by votes
ArgOrders(c) ==
    LET S == CaseArgs(c)
        n == Cardinality(S)
    IN {o \in [1..n -> S] :
          /\ \A i, j \in 1..n : i # j => o[i] # o[j]
          /\ \A i, j \in 1..n : i < j => arguments[o[i]].votes >= arguments[o[j]].votes}

TopWeights == <<50, 30, 20>>

\* the whole pool over the winners
WinnerShareWholePool(pool, n) == pool \div n

\* winning_voters_pool / len(winning_voters)
WinnerShare(pool, n) == Pct(pool, 40) \div n

\* top_args_pool * weights[i]
TopAmount(pool, i) == Pct(Pct(pool, 30), TopWeights[i])

\* participants_pool / total_participants
ParticipantShare(pool, tp) == Pct(pool, 20) \div tp

\* a creator, whatever the turnout
CreatorPaidAnyTurnout(c) == c.created_by_id # None

\* case.created_by_id and total_participants >= MIN_PARTICIPANTS_FOR_CREATOR
CreatorPaid(c) ==
    c.created_by_id # None /\ c.total_participants >= MIN_PARTICIPANTS_FOR_CREATOR

\* the ids of set S in ascending order
Ascending(S) ==
    LET hi == IF S = {} THEN 0 ELSE CHOOSE x \in S : \A y \in S : y <= x
    IN SelectSeq([u \in 1..hi |-> u], LAMBDA u : u \in S)

\* the distribution list of calculate_rewards for case row c (id cid), the
\* arguments having come back in order ord
Distributions(cid, c, ord) ==
    IF c.reward_pool <= 0 THEN <<>>
    ELSE
    LET vs == CaseVotes(cid)
        tp == c.total_participants
        win == SelectSeq(vs, LAMBDA v : v.side = c.ai_verdict)
        top == LET t == SelectSeq(ord, LAMBDA a : arguments[a].is_top_3)
               IN SubSeq(t, 1, Min(3, Len(t)))
        part == {vs[i].user_id : i \in DOMAIN vs}
                   \cup {arguments[a].user_id : a \in CaseArgs(cid)}
        partSeq == Ascending(part)
    IN [i \in DOMAIN win |->
            [user_id |-> win[i].user_id, type |-> "winning_voter",
             amount |-> WinnerShare(c.reward_pool, Len(win))]]
       \o [i \in DOMAIN top |->
            [user_id |-> arguments[top[i]].user_id, type |-> "top_argument",
             amount |-> TopAmount(c.reward_pool, i)]]
       \o (IF tp > 0
           THEN [i \in DOMAIN partSeq |->
                   [user_id |-> partSeq[i], type |-> "participant",
                    amount |-> ParticipantShare(c.reward_pool, tp)]]
           ELSE <<>>)
       \o (IF CreatorPaid(c)
           THEN <<[user_id |-> c.created_by_id, type |-> "creator",
                   amount |-> Pct(c.reward_pool, 10)]>>
           ELSE <<>>)

NewReward(u, c, amount) ==
    [user_id |-> u, case_id |-> c, amount |-> amount, status |-> "pending",
     blockchain_tx_hash |-> None, claimed_at |-> None, completed_at |-> None,
     updated_at |-> now]

\* one row per entry of the list
RewardRecordsUngrouped(cid, dist) ==
    [k \in DOMAIN dist |-> NewReward(dist[k].user_id, cid, dist[k].amount)]

\* create_reward_records: one row per user of the list, amounts summed
RewardRecords(cid, dist) ==
    LET first == SelectSeq([i \in DOMAIN dist |-> i],
                     LAMBDA i : \A j \in 1..(i - 1) : dist[j].user_id # dist[i].user_id)
        total(u) == SeqSum([i \in DOMAIN dist |->
                              IF dist[i].user_id = u THEN dist[i].amount ELSE 0])
    IN [k \in DOMAIN first |->
           NewReward(dist[first[k]].user_id, cid, total(dist[first[k]].user_id))]

\* the closure undone: the row as the job selected it
RewardErrorRollsBack(cur, old) == old

\* except Exception (rewards): logged only, the row stays as the job wrote it
RewardErrorLeaves(cur, old) == cur

\* the reward step of the job, on the case object it selected at the start
SweepRewards ==
    /\ sweep.pc = "rewards"
    /\ LET h == sweep.queue[1]
       IN IF RewardRaises(h.row)
          THEN /\ cases' = [cases EXCEPT ![h.id] = RewardErrorLeaves(@, h.row)]
               /\ UNCHANGED <<rewards, credits>>
          ELSE /\ \E ord \in ArgOrders(h.id) :
                    LET new == RewardRecords(h.id, Distributions(h.id, h.row, ord))
                    IN /\ rewards' = rewards \o new
                       /\ credits' = credits \o [k \in DOMAIN new |-> 0]
               /\ UNCHANGED cases
    /\ sweep' = IF Len(sweep.queue) = 1 THEN IdleSweep
                ELSE [sweep EXCEPT !.queue = Tail(@), !.pc = "find_args", !.top = {}]
    /\ UNCHANGED <<votes, arguments, arglikes, points, now, req, monitor, nreq>>

\* the whole run given up
SweepAbort == IdleSweep

\* except Exception (case): continue with the next selected case
SweepSkip ==
    IF Len(sweep.queue) = 1 THEN IdleSweep
    ELSE [sweep EXCEPT !.queue = Tail(@), !.pc = "find_args", !.top = {},
                       !.erred = @ \cup {sweep.queue[1].id}]

\* a store call of the per-case block (find_many, update_many, case.update)
\* raises
SweepError ==
    /\ sweep.pc \in {"find_args", "mark_top", "close_case"}
    /\ sweep' = SweepSkip
    /\ UNCHANGED <<store, now, req, monitor, nreq>>

\* ------------------------------------------- POST /profile/rewards/claim
\* ids: the ids named by request.reward_ids, a list of n entries (n exceeds the
\* number of ids when the list repeats one); wallet: the request or the user
\* row carries a wallet address
StartClaim(p) ==
    /\ req[p].op = "idle"
    /\ nreq < MaxRequests
    /\ nreq' = nreq + 1
    /\ \E u \in Users, ids \in SUBSET (1..NRewards), wallet, repeated \in BOOLEAN :
         /\ ids # {}
         /\ req' = [req EXCEPT ![p] = [IdleReq EXCEPT !.op = "claim", !.pc = "find_rewards",
                                       !.user = u, !.ids = ids, !.wallet = wallet,
                                       !.n = Cardinality(ids) + (IF repeated THEN 1 ELSE 0)]]
    /\ UNCHANGED <<store, now, sweep, monitor>>

ClaimableAnyOwner(u, ids) ==
    {i \in ids : i \in DOMAIN rewards /\ rewards[i].status = "pending"}

\* find_many(id in reward_ids, user_id = current user, status = "pending")
Claimable(u, ids) ==
    {i \in ids : i \in DOMAIN rewards /\ rewards[i].user_id = u
                                       /\ rewards[i].status = "pending"}

\* wallet check, find_many, the two rejections, then the transaction reference
ClaimFindRewards(p) ==
    /\ req[p].op = "claim" /\ req[p].pc = "find_rewards"
    /\ LET found == Claimable(req[p].user, req[p].ids)
       IN IF ~req[p].wallet THEN Fail(p)
          ELSE IF found = {} THEN Fail(p)
          ELSE IF Cardinality(found) # req[p].n THEN Fail(p)
          ELSE req' = [req EXCEPT ![p].pc = "mark", ![p].ids = found, ![p].tx = now]
    /\ UNCHANGED <<store, now, sweep, monitor, nreq>>

\* RewardService.mark_reward_claimed: the row as written
ClaimedRow(r, tx) ==
    [r EXCEPT !.status = "processing", !.blockchain_tx_hash = tx,
              !.claimed_at = now, !.updated_at = now]

\* one mark_reward_claimed of the loop
ClaimMark(p) ==
    /\ req[p].op = "claim" /\ req[p].pc = "mark"
    /\ LET i == CHOOSE i \in req[p].ids : \A j \in req[p].ids : i <= j
       IN /\ rewards' = [rewards EXCEPT ![i] = ClaimedRow(@, req[p].tx)]
          /\ req' = [req EXCEPT ![p].ids = @ \ {i},
                                ![p].pc = IF req[p].ids = {i} THEN "ok" ELSE "mark"]
    /\ UNCHANGED <<cases, votes, arguments, arglikes, points, credits, now,
                   sweep, monitor, nreq>>

\* ------------------------------------------------ monitor_transactions_job
\* where={"status": "processing", "blockchain_tx_hash": {"not": None}}, take=100
MonitorSelect ==
    LET all == SelectSeq([i \in 1..Len(rewards) |-> i],
                   LAMBDA i : rewards[i].status = "processing"
                              /\ rewards[i].blockchain_tx_hash # None)
    IN SubSeq(all, 1, Min(BatchLimit, Len(all)))

MonitorStart ==
    /\ monitor.pc = "idle"
    /\ LET ids == MonitorSelect
       IN IF ids = <<>>
          THEN UNCHANGED monitor
          ELSE monitor' = [pc |-> "lookup",
                           queue |-> [k \in 1..Len(ids) |->
                                         [id |-> ids[k], row |-> rewards[ids[k]]]],
                           erred |-> {}]
    /\ UNCHANGED <<store, now, req, sweep, nreq>>

\* what a ledger lookup can meet: the service switched off, a transaction
\* with 0 or 1 confirmations, an empty result, an RPC error reply, the 30 s
\* timeout, a node that cannot be reached
LedgerOutcomes ==
    {"disabled", "unconfirmed", "confirmed", "empty", "rpc_error", "timeout",
     "unreachable"}

\* blockchain_service.get_transaction: _rpc_call raises on an error reply, on
\* the timeout and on a connection failure, and every exception is answered
\* with status "error"
GetTransaction(outcome) ==
    CASE outcome = "disabled" -> [status |-> "unknown", confirmations |-> 0]
      [] outcome = "unconfirmed" -> [status |-> "confirmed", confirmations |-> 0]
      [] outcome = "confirmed" -> [status |-> "confirmed", confirmations |-> 1]
      [] outcome = "empty" -> [status |-> "not_found", confirmations |-> 0]
      [] outcome \in {"rpc_error", "timeout", "unreachable"} ->
            [status |-> "error", confirmations |-> 0]

\* the answers of blockchain_service.get_transaction
LedgerAnswers == {GetTransaction(o) : o \in LedgerOutcomes}

MonitorDecisionNoGrace(ans, r) ==
    IF ans.status = "confirmed"
    THEN IF ans.confirmations >= MinConfirmations THEN "complete" ELSE "next"
    ELSE IF ans.status \in {"not_found", "error"} THEN "fail"
    ELSE "next"

\* what the job does with an answer for the reward object r it selected
MonitorDecision(ans, r) ==
    IF ans.status = "confirmed"
    THEN IF ans.confirmations >= MinConfirmations THEN "complete" ELSE "next"
    ELSE IF ans.status = "not_found"
    THEN IF r.updated_at # None /\ now - r.updated_at > FailAfter THEN "fail" ELSE "next"
    ELSE IF ans.status = "error" THEN "fail"
    ELSE "next"

MonitorNext ==
    IF Len(monitor.queue) = 1 THEN IdleMonitor
    ELSE [monitor EXCEPT !.queue = Tail(@), !.pc = "lookup"]

MonitorLookup ==
    /\ monitor.pc = "lookup"
    /\ \E ans \in LedgerAnswers :
         LET d == MonitorDecision(ans, monitor.queue[1].row)
         IN monitor' = IF d = "next" THEN MonitorNext ELSE [monitor EXCEPT !.pc = d]
    /\ UNCHANGED <<store, now, req, sweep, nreq>>

\* data={"status": "completed", "completed_at": utcnow()}
CompletedRow(r) ==
    [r EXCEPT !.status = "completed", !.completed_at = now, !.updated_at = now]

MonitorComplete ==
    /\ monitor.pc = "complete"
    /\ rewards' = [rewards EXCEPT ![monitor.queue[1].id] = CompletedRow(@)]
    /\ monitor' = [monitor EXCEPT !.pc = "credit"]
    /\ UNCHANGED <<cases, votes, arguments, arglikes, points, credits, now,
                   req, sweep, nreq>>

\* db.user.update(total_points increment reward.amount); an exception of the
\* write is caught by the per-reward handler and the loop goes on
MonitorCredit ==
    /\ monitor.pc = "credit"
    /\ \E written \in BOOLEAN :
         LET h == monitor.queue[1]
         IN IF written
            THEN /\ points' = [points EXCEPT ![h.row.user_id] = @ + h.row.amount]
                 /\ credits' = [credits EXCEPT ![h.id] = @ + 1]
            ELSE UNCHANGED <<points, credits>>
    /\ monitor' = MonitorNext
    /\ UNCHANGED <<cases, votes, arguments, arglikes, rewards, now, req, sweep, nreq>>

FailedRowKept(r) == r

\* data={"status": "failed"}
FailedRow(r) == [r EXCEPT !.status = "failed", !.updated_at = now]

MonitorFail ==
    /\ monitor.pc = "fail"
    /\ rewards' = [rewards EXCEPT ![monitor.queue[1].id] = FailedRow(@)]
    /\ monitor' = MonitorNext
    /\ UNCHANGED <<cases, votes, arguments, arglikes, points, credits, now,
                   req, sweep, nreq>>

\* the ledger call or a row update of the per-reward try block raises: the
\* handler logs it and the loop goes on with the next reward
MonitorErrorStops ==
    /\ monitor.pc \in {"lookup", "complete", "fail"}
    /\ monitor' = IdleMonitor
    /\ UNCHANGED <<store, now, req, sweep, nreq>>

MonitorError ==
    /\ monitor.pc \in {"lookup", "complete", "fail"}
    /\ monitor' = IF Len(monitor.queue) = 1 THEN IdleMonitor
                  ELSE [MonitorNext EXCEPT !.erred = @ \cup {monitor.queue[1].id}]
    /\ UNCHANGED <<store, now, req, sweep, nreq>>

\* ------------------------------------------------------------ the store
\* The store a behaviour starts from.  Arguments can only be submitted by a
\* user who has liked three, so every deployment starts from seeded
\* arguments: the seeded case is active, closes at ClosePeriod after the
\* start, and holds SeedArgs arguments written by SeedUser.
SeedCase == [NewCase("active", 1 + ClosePeriod, None, TRUE, "YES", "tx")
                EXCEPT !.reward_pool = 1200]

SeedArguments == [a \in 1..SeedArgs |-> NewArgument(1, SeedUser, "YES")]

\* the store after the users of V have voted on the seeded case (user 1 YES, the
\* others NO) and user 1 has liked arguments 1..k, one request after the other
VotedCase(V) ==
    [SeedCase EXCEPT !.total_participants = Cardinality(V),
                     !.yes_votes = Cardinality(V \cap {1}),
                     !.no_votes = Cardinality(V \ {1})]

VotedStore(V, k) ==
    /\ cases = <<VotedCase(V)>>
    /\ votes = [i \in 1..Cardinality(V) |->
                  [user_id |-> i, case_id |-> 1,
                   side |-> IF i = 1 THEN "YES" ELSE "NO",
                   liked_arguments |-> IF i = 1 THEN [a \in 1..k |-> a] ELSE <<>>,
                   has_submitted_arg |-> FALSE]]
    /\ arguments = [a \in 1..SeedArgs |->
                      [SeedArguments[a] EXCEPT !.votes = IF a <= k THEN 1 ELSE 0]]
    /\ arglikes = {<<1, a>> : a \in 1..k}

Quiet ==
    /\ points = [u \in 1..(NUsers + 1) |-> 0]
    /\ now = 1
    /\ req = [p \in Slots |-> IdleReq]
    /\ sweep = IdleSweep
    /\ monitor = IdleMonitor
    /\ nreq = 0

\* nobody has voted yet, or user 1 has voted and liked MaxLikes arguments
Init ==
    /\ \/ VotedStore({}, 0)
       \/ VotedStore({1}, MaxLikes)
    /\ rewards = <<>>
    /\ credits = <<>>
    /\ Quiet

VoteOps(p) ==
    \/ StartVote(p) \/ VoteFindCase(p) \/ VoteFindExisting(p)
    \/ VoteCreate(p) \/ VoteUpdateCase(p)

LikeOps(p) ==
    \/ StartLike(p) \/ LikeFindArg(p) \/ LikeFindCase(p) \/ LikeFindVote(p)
    \/ LikeFindExisting(p) \/ LikeCreate(p) \/ LikeUpdateArg(p) \/ LikeUpdateVote(p)

UnlikeOps(p) ==
    \/ StartUnlike(p) \/ UnlikeFindArg(p) \/ UnlikeFindExisting(p)
    \/ UnlikeDelete(p) \/ UnlikeUpdateArg(p) \/ UnlikeFindVote(p)
    \/ UnlikeUpdateVote(p)

SubmitOps(p) ==
    \/ StartSubmit(p) \/ SubmitFindCase(p) \/ SubmitFindVote(p)
    \/ SubmitCreate(p) \/ SubmitUpdateVote(p)

SweepOps ==
    SweepStart \/ SweepFindArgs \/ SweepMarkTop \/ SweepCloseCase \/ SweepRewards

MonitorOps ==
    MonitorStart \/ MonitorLookup \/ MonitorComplete \/ MonitorCredit \/ MonitorFail

\* Lifecycle: case creation, the clock, the expiry sweep, and the requests of the
\* participation gate one after the other, each interleaved with the jobs at
\* every await.
Next ==
    \/ \E u \in Users : CreateCase(u)
    \/ GenerateAICase
    \/ Tick
    \/ SweepOps
    \/ Return(1) \/ VoteOps(1) \/ LikeOps(1) \/ UnlikeOps(1) \/ SubmitOps(1)

Spec == Init /\ [][Next]_vars

\* Concurrent votes on the seeded case.
InitVote ==
    /\ VotedStore({}, 0)
    /\ rewards = <<>>
    /\ credits = <<>>
    /\ Quiet

NextVote == \E p \in Slots : Return(p) \/ VoteOps(p)

SpecVote == InitVote /\ [][NextVote]_vars

\* Concurrent votes on the seeded case while an earlier vote request, of the
\* seed user, is suspended between its read of the case row and its writes.
InitVoteRace ==
    /\ VotedStore({}, 0)
    /\ rewards = <<>>
    /\ credits = <<>>
    /\ points = [u \in 1..(NUsers + 1) |-> 0]
    /\ now = 1
    /\ \E s \in Sides :
         req = [p \in Slots |->
                  IF p = 1
                  THEN [IdleReq EXCEPT !.op = "vote", !.pc = "find_vote",
                                       !.user = SeedUser, !.case = 1, !.side = s]
                  ELSE IdleReq]
    /\ sweep = IdleSweep
    /\ monitor = IdleMonitor
    /\ nreq = 0

SpecVoteRace == InitVoteRace /\ [][NextVote]_vars

\* Concurrent likes, unlikes and submissions on the seeded case, every user
\* having voted.
InitGate ==
    /\ \E k \in 0..MaxLikes : VotedStore(Users, k)
    /\ rewards = <<>>
    /\ credits = <<>>
    /\ Quiet

NextGate == \E p \in Slots : Return(p) \/ LikeOps(p) \/ UnlikeOps(p) \/ SubmitOps(p)

SpecGate == InitGate /\ [][NextGate]_vars

\* Likes and unlikes sent one after the other: a request starts and steps only
\* while no other request is in flight; a finished request keeps its slot until
\* its response is returned.
NextTurns ==
    \E p \in Slots :
        \/ Return(p)
        \/ /\ \A q \in Slots \ {p} : req[q].pc \in {"idle", "ok", "err"}
           /\ (LikeOps(p) \/ UnlikeOps(p))

SpecTurns == InitGate /\ [][NextTurns]_vars

\* Likes and unlikes after closure: the seeded case was closed by the sweep at
\* its closes_at, every user had voted, user 1 held k likes and the sweep
\* flagged arguments 1..3.
InitClosed ==
    /\ \E k \in 1..MaxLikes :
         /\ cases = <<ClosedRow(VotedCase(Users), SeedCase.closes_at)>>
         /\ votes = [i \in 1..NUsers |->
                       [user_id |-> i, case_id |-> 1,
                        side |-> IF i = 1 THEN "YES" ELSE "NO",
                        liked_arguments |-> IF i = 1 THEN [a \in 1..k |-> a] ELSE <<>>,
                        has_submitted_arg |-> FALSE]]
         /\ arguments = [a \in 1..SeedArgs |->
                           [SeedArguments[a] EXCEPT !.votes = IF a <= k THEN 1 ELSE 0,
                                                    !.is_top_3 = a <= 3]]
         /\ arglikes = {<<1, a>> : a \in 1..k}
    /\ rewards = <<>>
    /\ credits = <<>>
    /\ points = [u \in 1..(NUsers + 1) |-> 0]
    /\ now = SeedCase.closes_at
    /\ req = [p \in Slots |-> IdleReq]
    /\ sweep = IdleSweep
    /\ monitor = IdleMonitor
    /\ nreq = 0

SpecClosed == InitClosed /\ [][NextTurns]_vars

\* Two active cases: case 1 holds 3 seeded arguments,
\* all liked by user 1, who voted on it; case 2 holds n < 3 seeded arguments,
\* the first k of them liked by user 2, who voted on it.
InitFew ==
    /\ \E n \in 0..1, k \in 0..1 :
         /\ k <= n
         /\ cases = <<[SeedCase EXCEPT !.total_participants = 1, !.yes_votes = 1],
                       [SeedCase EXCEPT !.total_participants = 1, !.no_votes = 1]>>
         /\ votes = <<[user_id |-> 1, case_id |-> 1, side |-> "YES",
                        liked_arguments |-> <<1, 2, 3>>, has_submitted_arg |-> FALSE],
                       [user_id |-> 2, case_id |-> 2, side |-> "NO",
                        liked_arguments |-> [a \in 1..k |-> 3 + a],
                        has_submitted_arg |-> FALSE]>>
         /\ arguments = [a \in 1..(3 + n) |->
                           IF a <= 3
                           THEN [NewArgument(1, SeedUser, "YES") EXCEPT !.votes = 1]
                           ELSE [NewArgument(2, SeedUser, "YES") EXCEPT !.votes = k]]
         /\ arglikes = {<<1, a>> : a \in 1..3} \cup {<<2, 3 + a>> : a \in 1..k}
    /\ rewards = <<>>
    /\ credits = <<>>
    /\ Quiet

\* requests one at a time
NextFew == Return(1) \/ VoteOps(1) \/ LikeOps(1) \/ UnlikeOps(1) \/ SubmitOps(1)

SpecFew == InitFew /\ [][NextFew]_vars

\* Concurrent likes, unlikes and submissions on the two cases of InitFew.
SpecSubmitRace == InitFew /\ [][NextGate]_vars

\* Settlement: the seeded case is closed and NRewards pending rewards exist.
InitSettle ==
    /\ Quiet
    /\ cases = <<ClosedRow(VotedCase(Users), 1)>>
    /\ votes = [i \in 1..NUsers |->
                  [user_id |-> i, case_id |-> 1,
                   side |-> IF i = 1 THEN "YES" ELSE "NO",
                   liked_arguments |-> <<>>, has_submitted_arg |-> FALSE]]
    /\ arguments = SeedArguments
    /\ arglikes = {}
    /\ \E owner \in [1..NRewards -> Users] :
         /\ owner[1] = 1
         /\ rewards = [i \in 1..NRewards |-> NewReward(owner[i], 1, 100 * i)]
    /\ credits = [i \in 1..NRewards |-> 0]

ClaimOps(p) == StartClaim(p) \/ ClaimFindRewards(p) \/ ClaimMark(p)

NextSettle ==
    \/ Tick
    \/ MonitorOps
    \/ \E p \in Slots : Return(p) \/ ClaimOps(p)

SpecSettle == InitSettle /\ [][NextSettle]_vars

\* The monitor on its own: NRewards rewards of the closed seeded case, the
\* first one and any of the others claimed at the start, the rest pending.
InitMonitor ==
    /\ Quiet
    /\ cases = <<ClosedRow(VotedCase(Users), 1)>>
    /\ votes = <<>>
    /\ arguments = SeedArguments
    /\ arglikes = {}
    /\ \E owner \in [1..NRewards -> Users], claimed \in SUBSET (1..NRewards) :
         /\ 1 \in claimed
         /\ rewards = [i \in 1..NRewards |->
                         IF i \in claimed
                         THEN ClaimedRow(NewReward(owner[i], 1, 100 * i), 1)
                         ELSE NewReward(owner[i], 1, 100 * i)]
    /\ credits = [i \in 1..NRewards |-> 0]

NextMonitor == Tick \/ MonitorOps

SpecMonitor == InitMonitor /\ [][NextMonitor]_vars

\* the monitor scheduled again and again while the clock runs: no step of the
\* job and no tick of the clock is put off forever
SpecMonitorLive ==
    /\ InitMonitor
    /\ [][NextMonitor]_vars
    /\ WF_vars(Tick)
    /\ WF_vars(MonitorOps)

\* the same with failing calls
NextMonitorFaulty == Tick \/ MonitorOps \/ MonitorError

SpecMonitorFaulty == InitMonitor /\ [][NextMonitorFaulty]_vars

\* The reward step on its own: RewardService.calculate_rewards applied to a
\* case object, then create_reward_records on the list it returned.  The
\* store is one a closure leaves behind: the seeded case closed, its top
\* arguments flagged, the votes, likes and the submitted argument those of
\* requests served before.
RewardPools == {0, 49500}

CrowdSizes == {MIN_PARTICIPANTS_FOR_CREATOR - 1, MIN_PARTICIPANTS_FOR_CREATOR}

\* the votes of the users vs (in order), sides by sd, user 1 having liked and
\* submitted if sub, user 2 having liked the arguments of l2
RewardVotes(vs, sd, sub, l2) ==
    [i \in 1..Len(vs) |->
        [user_id |-> vs[i], case_id |-> 1, side |-> sd[vs[i]],
         liked_arguments |-> IF vs[i] = 1 /\ sub THEN <<1, 2, 3>>
                             ELSE IF vs[i] = 2 THEN Ascending(l2) ELSE <<>>,
         has_submitted_arg |-> vs[i] = 1 /\ sub]]

RewardLikes(sub, l2) ==
    (IF sub THEN {<<1, a>> : a \in 1..3} ELSE {}) \cup {<<2, a>> : a \in l2}

\* nseed seeded arguments, written by user seeder, and, if sub, the argument
\* user 1 submitted
RewardArguments(seeder, nseed, sub, likes) ==
    [a \in 1..(nseed + (IF sub THEN 1 ELSE 0)) |->
        [NewArgument(1, IF a <= nseed THEN seeder ELSE 1, "YES")
            EXCEPT !.votes = Cardinality({l \in likes : l[2] = a})]]

\* the author of the seeded arguments has voted like everybody else, if
\* anybody has
Seeder(vs) == IF vs = <<>> THEN SeedUser ELSE vs[Len(vs)]

RewardStore(vs, sd, tp, nseed, sub, l2, pool, creator, objStatus) ==
    /\ votes = RewardVotes(vs, sd, sub, l2)
    /\ arglikes = RewardLikes(sub, l2)
    /\ LET args == RewardArguments(Seeder(vs), nseed, sub, RewardLikes(sub, l2))
       IN \E T \in TopSetsOf(args, 1) :
            arguments = [a \in DOMAIN args |-> [args[a] EXCEPT !.is_top_3 = a \in T]]
    /\ LET yes == Cardinality({i \in 1..Len(vs) : sd[vs[i]] = "YES"})
           row == [SeedCase EXCEPT !.total_participants = tp,
                                   !.yes_votes = Min(yes, tp),
                                   !.no_votes = tp - Min(yes, tp),
                                   !.reward_pool = pool,
                                   !.created_by_id = creator]
       IN /\ cases = <<ClosedRow(row, 1 + ClosePeriod)>>
          /\ sweep = [pc |-> "calculate", now |-> 1 + ClosePeriod,
                      queue |-> <<[id |-> 1,
                                   row |-> [ClosedRow(row, 1 + ClosePeriod)
                                               EXCEPT !.status = objStatus]]>>,
                      top |-> {}, dist |-> <<>>]

InitReward ==
    /\ points = [u \in 1..(NUsers + 1) |-> 0]
    /\ now = 1 + ClosePeriod
    /\ req = [p \in Slots |-> IdleReq]
    /\ monitor = IdleMonitor
    /\ nreq = 0
    /\ rewards = <<>>
    /\ credits = <<>>
    /\ \E pool \in RewardPools, creator \in {None, 1}, objStatus \in {"closed", "active"} :
         \/ \E sd \in [Users -> Sides \cup {"-"}], nseed \in {0, 2, SeedArgs},
               sub \in BOOLEAN, liked2 \in BOOLEAN :
              LET vs == Ascending({u \in Users : sd[u] # "-"})
                  l2 == IF liked2 /\ 2 \in Range(vs) /\ nseed = SeedArgs
                        THEN {1, SeedArgs} \cup (IF sub THEN {SeedArgs + 1} ELSE {})
                        ELSE {}
              IN /\ sub => (1 \in Range(vs) /\ nseed = SeedArgs)
                 /\ liked2 => l2 # {}
                 /\ \E tp \in 0..Len(vs) :
                      /\ tp = 0 <=> vs = <<>>
                      /\ RewardStore(vs, sd, tp, nseed, sub, l2, pool, creator, objStatus)
         \/ \E n \in CrowdSizes :
              RewardStore([u \in 1..n |-> u], [u \in 1..n |-> "YES"], n,
                          SeedArgs, FALSE, {}, pool, creator, objStatus)

\* reward_service.calculate_rewards(db, case)
CalculateRewards ==
    /\ sweep.pc = "calculate"
    /\ LET h == sweep.queue[1]
       IN IF RewardRaises(h.row)
          THEN sweep' = [sweep EXCEPT !.pc = "raised"]
          ELSE \E ord \in ArgOrders(h.id) :
                  LET d == Distributions(h.id, h.row, ord)
                  IN sweep' = [sweep EXCEPT !.dist = d,
                                            !.pc = IF d = <<>> THEN "skipped" ELSE "persist"]
    /\ UNCHANGED <<store, now, req, monitor, nreq>>

\* reward_service.create_reward_records(db, case.id, distributions)
CreateRewardRecords ==
    /\ sweep.pc = "persist"
    /\ LET new == RewardRecords(sweep.queue[1].id, sweep.dist)
       IN /\ rewards' = rewards \o new
          /\ credits' = credits \o [k \in DOMAIN new |-> 0]
    /\ sweep' = [sweep EXCEPT !.pc = "persisted"]
    /\ UNCHANGED <<cases, votes, arguments, arglikes, points, now, req, monitor, nreq>>

NextReward == CalculateRewards \/ CreateRewardRecords

SpecReward == InitReward /\ [][NextReward]_vars

\* The expiry sweep over MaxCases system-created cases that close at different
\* times, with store calls that may fail.
InitSweep ==
    /\ Quiet
    /\ \E k \in 0..MaxLikes, late \in [2..MaxCases -> BOOLEAN] :
         /\ cases = <<VotedCase(Users)>>
                       \o [i \in 1..(MaxCases - 1) |->
                             NewCase("active",
                                     1 + ClosePeriod + (IF late[i + 1] THEN 1 ELSE 0),
                                     None, TRUE, "NO", "tx")]
         /\ votes = [i \in 1..NUsers |->
                       [user_id |-> i, case_id |-> 1,
                        side |-> IF i = 1 THEN "YES" ELSE "NO",
                        liked_arguments |-> IF i = 1 THEN [a \in 1..k |-> a] ELSE <<>>,
                        has_submitted_arg |-> FALSE]]
         /\ arguments = [a \in 1..SeedArgs |->
                           [SeedArguments[a] EXCEPT !.votes = IF a <= k THEN 1 ELSE 0]]
         /\ arglikes = {<<1, a>> : a \in 1..k}
    /\ rewards = <<>>
    /\ credits = <<>>

NextSweep == Tick \/ SweepOps \/ SweepError

SpecSweep == InitSweep /\ [][NextSweep]_vars

\* ------------------------------------------------------------ read paths
\* the collation of the stored verdict texts: NULL, then "NO" < "YES"
TextRank(t) == IF t = "" THEN 0 ELSE IF t = "NO" THEN 1 ELSE 2

\* the column the order clause {sort_by: sort_order} sorts on; ids are handed
\* out in creation order
SortKey(cs, i, sort_by) ==
    CASE sort_by = "created_at" -> i
      [] sort_by = "ai_verdict" -> TextRank(cs[i].ai_verdict)
      [] sort_by = "ai_confidence" -> cs[i].ai_confidence

\* the orders in which find_many(where, order) may return the rows of cs;
\* rows with equal keys come back in any order
ListOrders(cs, status, sort_by, sort_order) ==
    LET S == {i \in DOMAIN cs : status = "" \/ cs[i].status = status}
        Before(a, b) ==
            IF sort_order = "asc"
            THEN SortKey(cs, a, sort_by) < SortKey(cs, b, sort_by)
            ELSE SortKey(cs, a, sort_by) > SortKey(cs, b, sort_by)
    IN {s \in [1..Cardinality(S) -> S] :
          /\ \A j, k \in DOMAIN s : j # k => s[j] # s[k]
          /\ \A j, k \in DOMAIN s : j < k => ~Before(s[k], s[j])}

CaseListItem(cs, i) ==
    [id |-> i, status |-> cs[i].status,
     yes_votes |-> cs[i].yes_votes, no_votes |-> cs[i].no_votes,
     total_participants |-> cs[i].total_participants,
     is_ai_generated |-> cs[i].is_ai_generated,
     closes_at |-> cs[i].closes_at, closed_at |-> cs[i].closed_at,
     creator |-> cs[i].created_by_id]

\* GET /cases: the responses the store cs can give to query q
ListCasesResponses(cs, q) ==
    {LET skip == (q.page - 1) * q.page_size
         n == IF skip >= Len(s) THEN 0 ELSE Min(q.page_size, Len(s) - skip)
     IN [code |-> 200,
         cases |-> [k \in 1..n |-> CaseListItem(cs, s[skip + k])],
         total |-> Len(s), page |-> q.page, page_size |-> q.page_size] :
       s \in ListOrders(cs, q.status, q.sort_by, q.sort_order)}

\* GET /cases/{case_id}: verdict, reasoning and confidence are blanked unless
\* the case is closed; both hashes are returned as stored
CaseDetailResponse(cs, i) ==
    IF i \notin DOMAIN cs THEN [code |-> 404]
    ELSE LET c == cs[i]
             open == c.status # "closed"
         IN [code |-> 200, id |-> i, status |-> c.status,
             ai_verdict |-> IF open THEN "" ELSE c.ai_verdict,
             ai_verdict_reasoning |-> IF open THEN "" ELSE c.ai_verdict_reasoning,
             ai_confidence |-> IF open THEN None ELSE c.ai_confidence,
             yes_votes |-> c.yes_votes, no_votes |-> c.no_votes,
             total_participants |-> c.total_participants,
             is_ai_generated |-> c.is_ai_generated,
             closes_at |-> c.closes_at, closed_at |-> c.closed_at,
             creator |-> c.created_by_id,
             blockchain_tx_hash |-> c.blockchain_tx_hash,
             verdict_hash |-> c.verdict_hash]

\* GET /cases/{case_id}/ai-verdict: 403 unless the case is closed
AIVerdictResponse(cs, i) ==
    IF i \notin DOMAIN cs THEN [code |-> 404]
    ELSE LET c == cs[i]
         IN IF c.status # "closed" THEN [code |-> 403]
            ELSE [code |-> 200, case_id |-> i, verdict |-> c.ai_verdict,
                  reasoning |-> c.ai_verdict_reasoning,
                  confidence |-> c.ai_confidence,
                  verdict_hash |-> c.verdict_hash,
                  blockchain_tx_hash |-> c.blockchain_tx_hash,
                  yes_votes |-> c.yes_votes, no_votes |-> c.no_votes,
                  closed_at |-> c.closed_at]

\* GET /blockchain/case/{case_id}/blockchain, the ledger answering ans for
\* the commitment; the reveal fields are added for a closed case only
BlockchainInfoResponse(cs, i, ans) ==
    IF i \notin DOMAIN cs THEN [code |-> 404]
    ELSE LET c == cs[i]
             base == [code |-> 200, case_id |-> i, case_status |-> c.status,
                      verdict_hash |-> c.verdict_hash,
                      blockchain_tx_hash |-> c.blockchain_tx_hash,
                      has_blockchain_commitment |-> c.blockchain_tx_hash # "",
                      transaction |-> IF c.blockchain_tx_hash # "" THEN ans.status
                                      ELSE ""]
         IN IF c.status = "closed"
            THEN base @@
                 [ai_verdict |-> c.ai_verdict, ai_confidence |-> c.ai_confidence,
                  closed_at |-> c.closed_at]
            ELSE base

\* GET /cases query parameters: "" is an absent status filter; sort_by is any
\* column name the client sends
ListQueries ==
    [status : {"", "active"}, page : {1, 2}, page_size : {1, 20},
     sort_by : {"created_at", "ai_verdict", "ai_confidence"},
     sort_order : {"asc", "desc"}]

\* the responses the store cs can give to read request op with parameters q
ReadResponses(cs, op, q) ==
    CASE op = "list_cases" -> ListCasesResponses(cs, q)
      [] op = "get_case" -> {CaseDetailResponse(cs, q.case)}
      [] op = "get_ai_verdict" -> {AIVerdictResponse(cs, q.case)}
      [] op = "get_case_blockchain_info" ->
            {BlockchainInfoResponse(cs, q.case, q.ledger)}

\* a served read request: its parameters and the response sent
Served(op, q, resp) == [op |-> op, pc |-> "ok", q |-> q, resp |-> resp]

ListCases(p) ==
    /\ req[p].op = "idle"
    /\ nreq < MaxRequests
    /\ nreq' = nreq + 1
    /\ \E q \in ListQueries :
         \E resp \in ListCasesResponses(cases, q) :
            req' = [req EXCEPT ![p] = Served("list_cases", q, resp)]
    /\ UNCHANGED <<store, now, sweep, monitor>>

GetCase(p) ==
    /\ req[p].op = "idle"
    /\ nreq < MaxRequests
    /\ nreq' = nreq + 1
    /\ \E i \in 1..(MaxCases + 1) :
         req' = [req EXCEPT ![p] = Served("get_case", [case |-> i],
                                          CaseDetailResponse(cases, i))]
    /\ UNCHANGED <<store, now, sweep, monitor>>

GetAIVerdict(p) ==
    /\ req[p].op = "idle"
    /\ nreq < MaxRequests
    /\ nreq' = nreq + 1
    /\ \E i \in 1..(MaxCases + 1) :
         req' = [req EXCEPT ![p] = Served("get_ai_verdict", [case |-> i],
                                          AIVerdictResponse(cases, i))]
    /\ UNCHANGED <<store, now, sweep, monitor>>

GetCaseBlockchainInfo(p) ==
    /\ req[p].op = "idle"
    /\ nreq < MaxRequests
    /\ nreq' = nreq + 1
    /\ \E i \in 1..(MaxCases + 1), ans \in LedgerAnswers :
         req' = [req EXCEPT ![p] =
                    Served("get_case_blockchain_info", [case |-> i, ledger |-> ans],
                           BlockchainInfoResponse(cases, i, ans))]
    /\ UNCHANGED <<store, now, sweep, monitor>>

\* the rows a store can hold: a user's case awaiting moderation, or a generated
\* case, open or closed by the sweep at the current time
ReadRows ==
    {NewCase(CreateStatus(FALSE), None, u, FALSE, "", "") : u \in Users}
    \cup {NewCase(CreateStatus(TRUE), 1 + ClosePeriod, None, TRUE, v, tx) :
            v \in Sides, tx \in {"", "tx"}}
    \cup {ClosedRow(NewCase(CreateStatus(TRUE), 1, None, TRUE, v, "tx"), 1) :
            v \in Sides}

InitRead ==
    /\ Quiet
    /\ cases \in [1..MaxCases -> ReadRows]
    /\ votes = <<>>
    /\ arguments = <<>>
    /\ arglikes = {}
    /\ rewards = <<>>
    /\ credits = <<>>

NextRead ==
    \E p \in Slots :
        \/ ListCases(p)
        \/ GetCase(p)
        \/ GetAIVerdict(p)
        \/ GetCaseBlockchainInfo(p)
        \/ Return(p)

SpecRead == InitRead /\ [][NextRead]_vars

\* ================================================================ claims
Quiescent == \A p \in Slots : req[p].pc \in {"idle", "ok", "err"}

Stepped(p) == req'[p] # req[p]

\* C1: a case's status only ever moves pending_moderation -> active or
\* active -> closed; no case row disappears, is re-opened or goes back to
\* pending_moderation, whatever operation takes the step.
C1_StatusForward ==
    [][\A c \in DOMAIN cases :
          /\ c \in DOMAIN cases'
          /\ \/ cases'[c].status = cases[c].status
             \/ <<cases[c].status, cases'[c].status>> \in
                   {<<"pending_moderation", "active">>, <<"active", "closed">>}]_vars

\* a case closed by the sweep next to a case pending moderation, votes cast
C1_Witness ==
    /\ \E c \in DOMAIN cases : cases[c].status = "closed" /\ cases[c].closed_at # None
    /\ \E c \in DOMAIN cases : cases[c].status = "pending_moderation"
    /\ votes # <<>>

VoteRows(c) == {i \in DOMAIN votes : votes[i].case_id = c}

\* C2: once every vote request has finished, each case's total_participants,
\* yes_votes and no_votes equal the numbers of its UserVote rows (all, YES, NO).
C2_NoLostVote ==
    Quiescent =>
        \A c \in DOMAIN cases :
            /\ cases[c].total_participants = Cardinality(VoteRows(c))
            /\ cases[c].yes_votes =
                  Cardinality({i \in VoteRows(c) : votes[i].side = "YES"})
            /\ cases[c].no_votes =
                  Cardinality({i \in VoteRows(c) : votes[i].side = "NO"})

UniqueVotes ==
    \A i, j \in DOMAIN votes :
        (votes[i].user_id = votes[j].user_id /\ votes[i].case_id = votes[j].case_id)
            => i = j

\* C3: there is at most one UserVote row per (user, case); a vote request of a
\* user whose row for the case already exists before the request has written
\* anything ends in an error, and none of its steps creates a row or changes
\* the case's counters.
C3_OneVotePerUser ==
    /\ []UniqueVotes
    /\ [][\A p \in Slots :
            (/\ req[p].op = "vote"
             /\ req[p].pc \in {"find_case", "find_vote", "create_vote"}
             /\ VoteIdx(req[p].user, req[p].case) # None
             /\ Stepped(p))
            => /\ votes' = votes
               /\ cases' = cases
               /\ req'[p].pc \in {"find_vote", "err"}
               /\ req[p].pc # "find_case" => req'[p].pc = "err"]_vars

\* a second vote of a user on the seeded case has been rejected
C3_Witness ==
    \E p \in Slots :
        /\ req[p].op = "vote" /\ req[p].pc = "err"
        /\ VoteIdx(req[p].user, req[p].case) # None
        /\ cases[req[p].case].total_participants = 1

\* C4: no UserVote row ever lists more than 3 liked arguments; a like request
\* that read a list of 3 is rejected, and the step that rejects it leaves the
\* argument's count, the list and the ArgumentVote rows as they were.
C4_LikeLimit ==
    /\ [](\A i \in DOMAIN votes : Len(votes[i].liked_arguments) <= 3)
    /\ [][\A p \in Slots :
            (/\ req[p].op = "like" /\ req[p].pc = "find_like"
             /\ Len(req[p].liked) >= 3
             /\ Stepped(p))
            => /\ req'[p].pc = "err"
               /\ arguments' = arguments /\ votes' = votes /\ arglikes' = arglikes]_vars

\* a fourth like, on an argument of the case not liked before, has been rejected
C4_Witness ==
    \E p \in Slots :
        /\ req[p].op = "like" /\ req[p].pc = "err"
        /\ Len(req[p].liked) = 3
        /\ ArgExists(req[p].arg)
        /\ <<req[p].user, req[p].arg>> \notin arglikes
        /\ Cardinality({l \in arglikes : l[1] = req[p].user}) = 3

LikeRows(a) == {l \in arglikes : l[2] = a}

\* C5: when the likes and unlikes in flight, all of different users, have
\* finished, every argument's votes equals the number of ArgumentVote rows that
\* reference it.
C5_LikeCountMatchesRows ==
    (/\ \A p \in Slots : req[p].pc \in {"ok", "err"}
     /\ \A p, q \in Slots : p # q => req[p].user # req[q].user)
        => \A a \in DOMAIN arguments : arguments[a].votes = Cardinality(LikeRows(a))

\* C6: while no like or unlike is in flight, with the likes and unlikes of one
\* user interleaved, every UserVote row's liked_arguments, as a set, is the set
\* of the case's arguments for which the user has an ArgumentVote row.
C6_LikedListMatchesRows ==
    Quiescent =>
        \A i \in DOMAIN votes :
            Range(votes[i].liked_arguments) =
                {a \in CaseArgs(votes[i].case_id) : <<votes[i].user_id, a>> \in arglikes}

\* C7: on an active case a submission passes its check exactly if the user has
\* a UserVote row for the case that is not marked has_submitted_arg and lists
\* at least 3 liked arguments; a submission that passes creates one argument
\* and marks the row, every other submission ends in an error, and no step of
\* a rejected submission creates an argument.
C7_SubmitGate ==
    [][\A p \in Slots :
          (req[p].op = "submit" /\ Stepped(p)) =>
             LET i == VoteIdx(req[p].user, req[p].case)
             IN /\ req[p].pc = "find_case" =>
                      /\ arguments' = arguments
                      /\ req'[p].pc \in {"find_vote", "err"}
                /\ req[p].pc = "find_vote" =>
                      /\ arguments' = arguments
                      /\ req'[p].pc \in {"create_arg", "err"}
                      /\ req'[p].pc = "create_arg" <=>
                            /\ i # None
                            /\ ~votes[i].has_submitted_arg
                            /\ Len(votes[i].liked_arguments) >= 3
                /\ req[p].pc = "create_arg" =>
                      /\ Len(arguments') = Len(arguments) + 1
                      /\ req'[p].pc = "update_vote"
                /\ req[p].pc = "update_vote" =>
                      /\ arguments' = arguments
                      /\ votes'[i].has_submitted_arg
                      /\ req'[p].pc = "ok"]_vars

\* after one submission went through, the user's next one has been rejected
C7_Witness ==
    \E p \in Slots :
        /\ req[p].op = "submit" /\ req[p].pc = "err"
        /\ VoteIdx(req[p].user, req[p].case) # None
        /\ votes[VoteIdx(req[p].user, req[p].case)].has_submitted_arg
        /\ \E a \in DOMAIN arguments : arguments[a].user_id = req[p].user
        /\ Len(arguments) = SeedArgs + 1

\* C8: a reward's status only moves pending -> processing, processing ->
\* completed or processing -> failed; completed and failed are final.
C8_RewardForward ==
    [][\A r \in DOMAIN rewards :
          \/ rewards'[r].status = rewards[r].status
          \/ <<rewards[r].status, rewards'[r].status>> \in
                {<<"pending", "processing">>, <<"processing", "completed">>,
                 <<"processing", "failed">>}]_vars

\* C9: a reward's amount is added to its user's total_points at most once.
C9_CreditedOnce == \A r \in DOMAIN rewards : credits[r] <= 1

\* C10: in every state a reward is completed exactly if its amount has been
\* added to the user's total_points.
C10_CompletedIffCredited ==
    \A r \in DOMAIN rewards : (rewards[r].status = "completed") <=> (credits[r] >= 1)

\* the step of the expiry sweep that ends its work on the case at the head of
\* its queue
SweepEndsCase == sweep.pc = "rewards" /\ sweep' # sweep

WinningVoters(c) ==
    {votes[i].user_id : i \in {j \in DOMAIN votes :
                                  votes[j].case_id = c /\ votes[j].side = cases[c].ai_verdict}}

PendingRewardOf(rs, u, c) ==
    \E r \in DOMAIN rs :
        rs[r].user_id = u /\ rs[r].case_id = c /\ rs[r].status = "pending"

\* C11: when the expiry sweep has closed a case that has a verdict, a reward
\* pool above 0 and at least one voter on the verdict's side, then as the sweep
\* ends its work on the case a pending Reward row exists for every such voter.
C11_SweepPersistsRewards ==
    [][SweepEndsCase =>
          LET c == sweep.queue[1].id
          IN (/\ cases[c].status = "closed"
              /\ cases[c].ai_verdict # ""
              /\ cases[c].reward_pool > 0
              /\ WinningVoters(c) # {})
             => \A u \in WinningVoters(c) : PendingRewardOf(rewards', u, c)]_vars

\* the reward calculation has returned its list for the case object it was given
Calculated == sweep.pc \in {"persist", "persisted", "skipped"}

Entries(type) == SelectSeq(sweep.dist, LAMBDA e : e.type = type)

RewardsOf(rs, u, c) == {r \in DOMAIN rs : rs[r].user_id = u /\ rs[r].case_id = c}

OneRewardPerUser ==
    \A r1, r2 \in DOMAIN rewards :
        (rewards[r1].user_id = rewards[r2].user_id
            /\ rewards[r1].case_id = rewards[r2].case_id) => r1 = r2

\* C12: there is never more than one Reward row per (user, case); the persist
\* step creates, for every user of the distribution list, exactly one row, of
\* status pending and with the sum of the user's amounts in the list, and no
\* other row.
C12_OneRewardPerUser ==
    /\ []OneRewardPerUser
    /\ [][sweep.pc = "persist" /\ sweep' # sweep =>
            LET c == sweep.queue[1].id
                d == sweep.dist
                listed == {d[k].user_id : k \in DOMAIN d}
                new == {r \in DOMAIN rewards' : r \notin DOMAIN rewards}
            IN /\ \A r \in DOMAIN rewards : rewards'[r] = rewards[r]
               /\ Cardinality(new) = Cardinality(listed)
               /\ \A u \in listed :
                    \E r \in new :
                        /\ RewardsOf(rewards', u, c) = {r}
                        /\ rewards'[r].status = "pending"
                        /\ rewards'[r].amount =
                              SeqSum([k \in DOMAIN d |->
                                        IF d[k].user_id = u THEN d[k].amount ELSE 0])]_vars

\* rows persisted for a user who is in the list under two categories or more
C12_Witness ==
    /\ sweep.pc = "persisted"
    /\ \E r \in DOMAIN rewards :
         /\ Cardinality({k \in DOMAIN sweep.dist :
                            sweep.dist[k].user_id = rewards[r].user_id}) >= 2
         /\ rewards[r].amount > sweep.dist[1].amount
    /\ Cardinality({sweep.dist[k].user_id : k \in DOMAIN sweep.dist}) >= 2

CaseRewardSum(c) ==
    SeqSum([r \in DOMAIN rewards |->
              IF rewards[r].case_id = c THEN rewards[r].amount ELSE 0])

FlaggedArgs(c) == {a \in CaseArgs(c) : arguments[a].is_top_3}

SomeCategoryEmpty(c) ==
    \/ WinningVoters(c) = {}
    \/ FlaggedArgs(c) = {}
    \/ cases[c].total_participants = 0
    \/ ~(cases[c].created_by_id # None
           /\ cases[c].total_participants >= MIN_PARTICIPANTS_FOR_CREATOR)

C14_WinningVoterShare ==
    Calculated =>
        LET c == sweep.queue[1].id
            P == cases[c].reward_pool
            W == {i \in DOMAIN votes :
                     votes[i].case_id = c /\ votes[i].side = cases[c].ai_verdict}
            win == Entries("winning_voter")
        IN IF P = 0 THEN win = <<>>
           ELSE /\ Len(win) = Cardinality(W)
                /\ {win[k].user_id : k \in DOMAIN win} = {votes[i].user_id : i \in W}
                /\ \A k \in DOMAIN win : win[k].amount * Cardinality(W) * 100 = P * 40

\* a winner next to a voter of the other side, amounts computed
C14_Witness ==
    /\ sweep.pc = "persisted"
    /\ Entries("winning_voter") # <<>>
    /\ \E i \in DOMAIN votes : votes[i].side # cases[1].ai_verdict
    /\ \E r \in DOMAIN rewards : rewards[r].amount > 0

\* the flagged arguments of case c by votes descending, ties by earliest creation
RankedFlagged(c) ==
    LET S == FlaggedArgs(c)
        n == Cardinality(S)
    IN CHOOSE o \in [1..n -> S] :
          \A i, j \in 1..n :
              i < j => \/ arguments[o[i]].votes > arguments[o[j]].votes
                       \/ /\ arguments[o[i]].votes = arguments[o[j]].votes
                          /\ o[i] < o[j]

C16_CreatorThreshold ==
    (Calculated /\ cases[sweep.queue[1].id].reward_pool > 0) =>
        LET c == cases[sweep.queue[1].id]
            cr == Entries("creator")
        IN IF c.created_by_id # None /\ c.total_participants >= 100
           THEN /\ Len(cr) = 1
                /\ cr[1].user_id = c.created_by_id
                /\ cr[1].amount * 10 = c.reward_pool
           ELSE cr = <<>>

\* a creator paid at 100 participants
C16_Witness ==
    /\ sweep.pc = "persisted"
    /\ cases[1].total_participants = 100
    /\ Entries("creator") # <<>>
    /\ \E r \in DOMAIN rewards :
         rewards[r].user_id = cases[1].created_by_id
            /\ rewards[r].amount > Entries("creator")[1].amount

\* C17: a step of the expiry sweep leaves every case that is already closed as
\* it is: its counters and closed_at, the is_top_3 flag of each of its
\* arguments, and (the reward step of the run that closed it apart) its Reward
\* rows.
C17_SweepIdempotent ==
    [][sweep' # sweep =>
          \A c \in DOMAIN cases :
              cases[c].status = "closed" =>
                  /\ cases'[c] = cases[c]
                  /\ \A a \in CaseArgs(c) : arguments'[a] = arguments[a]
                  /\ (sweep.pc = "rewards" /\ sweep.queue[1].id = c)
                     \/ [r \in {x \in DOMAIN rewards' : rewards'[x].case_id = c} |-> rewards'[r]]
                           = [r \in {x \in DOMAIN rewards : rewards[x].case_id = c} |-> rewards[r]]]_vars

\* a later run of the sweep at work on another case, an earlier run having
\* closed a case with flagged arguments
C17_Witness ==
    /\ sweep.pc = "rewards"
    /\ \E c \in DOMAIN cases :
         /\ cases[c].status = "closed"
         /\ cases[c].closed_at < sweep.now
         /\ c \notin sweep.sel
         /\ FlaggedArgs(c) # {}

\* C18: when the reward calculation raises for a case the sweep selected, the
\* case is closed with closed_at set as the sweep ends its work on it.
C18_ClosedDespiteRewardError ==
    [][(SweepEndsCase /\ RewardRaises(sweep.queue[1].row)) =>
          LET c == sweep.queue[1].id
          IN /\ cases'[c].status = "closed"
             /\ cases'[c].closed_at = sweep.now
             /\ cases'[c].closed_at # None]_vars

\* the sweep is done with a case whose reward calculation raised: the case had
\* a pool and a winning voter, and has no Reward row
C18_Witness ==
    /\ sweep.pc = "idle"
    /\ \E c \in DOMAIN cases :
         /\ cases[c].status = "closed" /\ cases[c].closed_at # None
         /\ cases[c].reward_pool > 0 /\ WinningVoters(c) # {}
         /\ \A r \in DOMAIN rewards : rewards[r].case_id # c

\* C19: when a run of the sweep finishes, every case it selected is closed,
\* those apart whose own processing raised.
C19_ErrorsIsolatedPerCase ==
    [][(sweep.pc # "idle" /\ sweep'.pc = "idle") =>
          LET failed == sweep.erred \cup
                           (IF sweep.pc # "rewards" THEN {sweep.queue[1].id} ELSE {})
          IN \A c \in sweep.sel \ failed : cases'[c].status = "closed"]_vars

\* a run is over in which the processing of the first selected case raised and
\* a case selected with it was closed
C19_Witness ==
    /\ sweep.pc = "idle"
    /\ \E c1, c2 \in DOMAIN cases :
         /\ c1 < c2
         /\ cases[c1].status = "active"
         /\ cases[c2].status = "closed"
         /\ cases[c1].closes_at <= cases[c2].closed_at

ReadOps == {"list_cases", "get_case", "get_ai_verdict", "get_case_blockchain_info"}

\* the values the three hidden columns of a row may hold
HiddenValues ==
    [ai_verdict : Sides,
     ai_verdict_reasoning : {StockReasoning(v) : v \in Sides},
     ai_confidence : {StockConfidence("NO"), StockConfidence("YES"),
                      StockConfidence("YES") + 1}]

\* the store cs with nothing changed but the three hidden columns of case c
WithHidden(cs, c, h) ==
    [cs EXCEPT ![c].ai_verdict = h.ai_verdict,
               ![c].ai_verdict_reasoning = h.ai_verdict_reasoning,
               ![c].ai_confidence = h.ai_confidence]

\* C20: whatever a read path (case list, case detail, AI-verdict endpoint,
\* blockchain-info endpoint) has answered, the same answer to the same request
\* is possible in every store that differs from the current one only in the
\* verdict, reasoning and confidence of one case that is not closed.
C20_HiddenVerdictNoninterference ==
    \A p \in Slots :
        req[p].pc = "ok" /\ req[p].op \in ReadOps =>
            \A c \in DOMAIN cases :
                cases[c].status # "closed" =>
                    \A h \in HiddenValues :
                        req[p].resp \in
                            ReadResponses(WithHidden(cases, c, h), req[p].op, req[p].q)

\* a claim request in slot p takes its validation step / one step of its loop
ClaimChecks(p) == req[p].op = "claim" /\ req[p].pc = "find_rewards" /\ Stepped(p)

ClaimMarks(p) == req[p].op = "claim" /\ req[p].pc = "mark" /\ Stepped(p)

AllClaimable(p) ==
    \A i \in req[p].ids : /\ i \in DOMAIN rewards
                          /\ rewards[i].user_id = req[p].user
                          /\ rewards[i].status = "pending"

\* every step of the update loop moves the next named reward to processing
\* with the request's transaction reference and claimed_at, and the request
\* succeeds exactly when none is left; nothing but that loop writes rewards
\* on behalf of a request
ClaimLoopMovesEach ==
    \A p \in Slots :
        /\ ClaimMarks(p) =>
              \E i \in req[p].ids :
                  /\ rewards'[i].status = "processing"
                  /\ rewards'[i].blockchain_tx_hash = req[p].tx
                  /\ req[p].tx # None
                  /\ rewards'[i].claimed_at # None
                  /\ \A j \in DOMAIN rewards : j # i => rewards'[j] = rewards[j]
                  /\ req'[p].ids = req[p].ids \ {i}
                  /\ req'[p].pc = IF req'[p].ids = {} THEN "ok" ELSE "mark"
        /\ Stepped(p) /\ rewards' # rewards => req[p].pc = "mark"

\* C21 (as stated): a claim request naming a reward that is not pending or not
\* the requester's is rejected and writes nothing; a request whose named
\* rewards are all pending and the requester's own goes on to move each of
\* them to processing with the transaction reference and claimed_at set.
C21_ClaimAllOrNothing ==
    [][/\ \A p \in Slots :
            ClaimChecks(p) =>
                IF AllClaimable(p)
                THEN req'[p].pc = "mark" /\ req'[p].ids = req[p].ids
                ELSE req'[p].pc = "err" /\ rewards' = rewards
       /\ ClaimLoopMovesEach]_vars

\* C21 (amended): the same, for a request that comes with a wallet address
\* (its own or the user's stored one) and names no reward twice; a request
\* without an address or with a repeated id is rejected and writes nothing,
\* whatever the state of the rewards it names.
C21_ClaimAllOrNothingWithWallet ==
    [][/\ \A p \in Slots :
            ClaimChecks(p) =>
                IF AllClaimable(p) /\ req[p].wallet
                   /\ req[p].n = Cardinality(req[p].ids)
                THEN req'[p].pc = "mark" /\ req'[p].ids = req[p].ids
                ELSE req'[p].pc = "err" /\ rewards' = rewards
       /\ ClaimLoopMovesEach]_vars

\* a claim has succeeded and a reward carries its transaction reference, while
\* another request was rejected
C21_Witness ==
    \E p, q \in Slots :
        /\ req[p].op = "claim" /\ req[p].pc = "ok"
        /\ \E i \in DOMAIN rewards : /\ rewards[i].status = "processing"
                                     /\ rewards[i].blockchain_tx_hash = req[p].tx
                                     /\ rewards[i].claimed_at # None
        /\ req[q].op = "claim" /\ req[q].pc = "err"

\* the monitor is about to look up the reward at the head of its batch, and
\* that reward is processing
LooksUpProcessing ==
    /\ monitor.pc = "lookup"
    /\ rewards[monitor.queue[1].id].status = "processing"

\* the monitor's position after the lookup met outcome o
AfterLookup(o) ==
    LET d == MonitorDecision(GetTransaction(o), monitor.queue[1].row)
    IN IF d = "next" THEN MonitorNext ELSE [monitor EXCEPT !.pc = d]

\* a lookup writes nothing and leaves the monitor where some outcome puts it
LookupStep ==
    (monitor.pc = "lookup" /\ monitor' # monitor) =>
        /\ UNCHANGED <<rewards, points, credits>>
        /\ \E o \in LedgerOutcomes : monitor' = AfterLookup(o)

\* the write after the decision to fail: that reward becomes failed, no other
\* row and no balance changes
FailStep ==
    (monitor.pc = "fail" /\ monitor' # monitor) =>
        LET i == monitor.queue[1].id
        IN /\ rewards'[i].status = "failed"
           /\ \A j \in DOMAIN rewards : j # i => rewards'[j] = rewards[j]
           /\ UNCHANGED <<points, credits>>

\* C22: for a processing reward whose lookup finds no transaction, the monitor
\* fails the reward, crediting nothing, when more than 24 hours have passed
\* since the row's last update, and otherwise leaves everything as it is and
\* goes on to the next reward.
C22_NotFoundGrace ==
    /\ [](LooksUpProcessing =>
            AfterLookup("empty") =
                IF now - rewards[monitor.queue[1].id].updated_at > FailAfter
                THEN [monitor EXCEPT !.pc = "fail"]
                ELSE MonitorNext)
    /\ [][LookupStep /\ FailStep]_vars

\* a run is over that failed a reward more than 24 hours after its claim, and
\* nobody has been credited
C22_Witness ==
    /\ monitor.pc = "idle"
    /\ \E i \in DOMAIN rewards :
         /\ rewards[i].status = "failed"
         /\ rewards[i].updated_at - rewards[i].claimed_at > FailAfter
    /\ points = [u \in DOMAIN points |-> 0]

\* C23: for a processing reward whose lookup is answered with status "error",
\* the monitor fails the reward in the same run, whatever its age, and credits
\* nothing.
C23_ErrorFailsAtOnce ==
    /\ [](LooksUpProcessing =>
            \A ans \in LedgerAnswers :
                ans.status = "error" =>
                    MonitorDecision(ans, monitor.queue[1].row) = "fail")
    /\ [][/\ FailStep
          /\ (monitor.pc = "lookup" /\ monitor'.pc = "fail") =>
                 monitor'.queue = monitor.queue]_vars

\* a reward has been failed within 24 hours of its claim
C23_Witness ==
    \E i \in DOMAIN rewards :
        /\ rewards[i].status = "failed"
        /\ rewards[i].updated_at - rewards[i].claimed_at <= FailAfter
        /\ points[rewards[i].user_id] = 0

\* C24: a lookup that times out, or whose node cannot be reached, is treated
\* like one that finds no transaction: a processing reward last updated 24
\* hours ago or less is left processing and the monitor goes on.
C24_TimeoutIsNotFound ==
    (LooksUpProcessing
     /\ now - rewards[monitor.queue[1].id].updated_at <= FailAfter) =>
        \A o \in {"timeout", "unreachable"} :
            /\ AfterLookup(o) = AfterLookup("empty")
            /\ AfterLookup(o) = MonitorNext

\* C25: a run ends only with the last reward of its batch; until then every
\* step, a raising call included, stays with the reward at the head or goes on
\* to look up the next one, and every lookup is decided by the answer for
\* that reward and the row selected for it.
C25_MonitorErrorsIsolated ==
    [][/\ (monitor.pc # "idle" /\ monitor' # monitor) =>
             \/ monitor'.queue = monitor.queue /\ monitor'.pc # "idle"
             \/ /\ Len(monitor.queue) > 1
                /\ monitor'.queue = Tail(monitor.queue)
                /\ monitor'.pc = "lookup"
             \/ Len(monitor.queue) = 1 /\ monitor' = IdleMonitor
       /\ (monitor.pc = "idle" /\ monitor' # monitor) =>
             /\ monitor'.pc = "lookup"
             /\ {monitor'.queue[k].id : k \in DOMAIN monitor'.queue} =
                   {i \in DOMAIN rewards : rewards[i].status = "processing"}
             /\ \A k \in DOMAIN monitor'.queue :
                   monitor'.queue[k].row = rewards[monitor'.queue[k].id]
       /\ (monitor.pc = "lookup" /\ monitor' # monitor) =>
             \E o \in LedgerOutcomes :
                 LET n == AfterLookup(o)
                 IN monitor'.pc = n.pc /\ monitor'.queue = n.queue]_vars

\* the processing of one reward raised, and the run has gone on to complete a
\* reward selected with it
C25_Witness ==
    /\ monitor.pc = "credit"
    /\ monitor.erred # {}
    /\ monitor.queue[1].id \notin monitor.erred
    /\ rewards[monitor.queue[1].id].status = "completed"
    /\ \E i \in monitor.erred : rewards[i].status = "processing"

\* C26: a vote request goes past its check of the case, towards creating the
\* Vote row and incrementing the counters, only if the case is active and
\* closes strictly after the current time; on a case awaiting moderation, a
\* closed case or an active case with closes_at <= now it is rejected at that
\* check, and votes and counters stay as they are.
C26_VoteOnlyBeforeClose ==
    [][\A p \in Slots :
          (req[p].op = "vote" /\ req[p].pc = "find_case" /\ Stepped(p)) =>
              LET c == req[p].case
                  open == /\ CaseExists(c)
                          /\ cases[c].status = "active"
                          /\ cases[c].closes_at > now
              IN /\ UNCHANGED <<votes, cases>>
                 /\ ~open => req'[p].pc = "err"]_vars

\* argument b comes before argument a in the order likes descending, earliest
\* created first
Outranks(b, a) ==
    \/ arguments[b].votes > arguments[a].votes
    \/ arguments[b].votes = arguments[a].votes /\ b < a

\* C27: when the sweep flags the top arguments of a case with n arguments, the
\* flagged arguments are exactly the first min(3, n) in the order likes
\* descending, ties broken by earliest creation.
C27_TopThreeByLikesThenAge ==
    [][(sweep.pc = "mark_top" /\ sweep'.pc = "close_case") =>
          LET S == {a \in DOMAIN arguments :
                       arguments[a].case_id = sweep.queue[1].id}
              first == {a \in S : Cardinality({b \in S : Outranks(b, a)}) < 3}
          IN /\ {a \in S : arguments'[a].is_top_3} = first
             /\ Cardinality(first) = Min(3, Cardinality(S))]_vars

\* a like request in slot p takes the step it is at
LikeAt(p, pc) == req[p].op = "like" /\ req[p].pc = pc /\ Stepped(p)

\* C28: a like request is rejected, with no ArgumentLike row created and the
\* like count and the liked list left as they are, when the check it has come
\* to finds that the argument is not one of the given case, that the case is
\* not active, that the user has no Vote on the case, or that the user already
\* has a like on the argument; and a rejected request writes nothing later.
C28_LikeRejections ==
    [][\A p \in Slots :
          LET u == req[p].user
              c == req[p].case
              a == req[p].arg
              rejected == /\ req'[p].pc = "err"
                          /\ UNCHANGED <<arglikes, arguments, votes>>
          IN /\ (LikeAt(p, "find_arg")
                 /\ (a \notin DOMAIN arguments \/ arguments[a].case_id # c))
                    => rejected
             /\ (LikeAt(p, "find_case")
                 /\ (c \notin DOMAIN cases \/ cases[c].status # "active"))
                    => rejected
             /\ (LikeAt(p, "find_vote")
                 /\ ~\E i \in DOMAIN votes :
                        votes[i].user_id = u /\ votes[i].case_id = c)
                    => rejected
             /\ ((LikeAt(p, "find_like") \/ LikeAt(p, "create_like"))
                 /\ <<u, a>> \in arglikes)
                    => rejected
             /\ (req[p].op = "like" /\ req[p].pc = "err" /\ Stepped(p))
                    => req'[p] = IdleReq /\ UNCHANGED store]_vars

\* a like request has been rejected on a closed case, whose argument it names
C28_Witness ==
    \E p \in Slots :
        /\ req[p].op = "like" /\ req[p].pc = "err"
        /\ req[p].arg \in DOMAIN arguments
        /\ arguments[req[p].arg].case_id = req[p].case
        /\ cases[req[p].case].status = "closed"

\* the generator job adds a case row
GeneratesCase ==
    /\ Len(cases') = Len(cases) + 1
    /\ cases'[Len(cases')].is_ai_generated

\* C29: a case row the generator job creates is active, carries a verdict, its
\* hash and closes_at = now + 24 h, and carries no ledger reference when the
\* commit of the hash failed (the contract call failed, or the commit
\* raised); the job creates no other row, and none when generation failed.
C29_CommitFailureLeavesNoReference ==
    [][GeneratesCase =>
          /\ \E o \in CommitOutcomes, v \in Sides :
                cases' = Append(cases, NewCase("active", now + ClosePeriod, None,
                                               TRUE, v, CommitVerdictHash(o)))
          /\ cases'[Len(cases')].verdict_hash # ""
          /\ \A o \in {"sdk_failed", "raised"} : CommitVerdictHash(o) = ""]_vars

\* C30: in every state a case has a verdict exactly when it has a verdict
\* hash, and a verdict reasoning exactly when it has a verdict hash; and no
\* step, the sweep's included, changes the verdict or the verdict hash of a
\* case row that exists.
C30_VerdictFixedAtCreation ==
    /\ [](\A c \in DOMAIN cases :
             /\ (cases[c].ai_verdict # "") <=> (cases[c].verdict_hash # "")
             /\ (cases[c].ai_verdict_reasoning # "") <=> (cases[c].verdict_hash # ""))
    /\ [][\A c \in DOMAIN cases :
             /\ c \in DOMAIN cases'
             /\ cases'[c].ai_verdict = cases[c].ai_verdict
             /\ cases'[c].verdict_hash = cases[c].verdict_hash]_vars

\* the sweep has closed a generated case, which has its verdict and hash, and
\* a user's case without either exists, after votes have been counted
C30_Witness ==
    \E c, d \in DOMAIN cases :
        /\ cases[c].status = "closed"
        /\ cases[c].ai_verdict \in Sides
        /\ cases[c].verdict_hash = VerdictHash(cases[c].ai_verdict,
                                               cases[c].ai_verdict_reasoning)
        /\ cases[c].total_participants > 0
        /\ ~cases[d].is_ai_generated
        /\ cases[d].verdict_hash = "" /\ cases[d].ai_verdict = ""

\* C31: no step lowers a case's yes_votes, no_votes or total_participants,
\* however the reads and writes of concurrent vote requests on the case
\* interleave.
C31_CountersNeverDecrease ==
    [][\A c \in DOMAIN cases :
          /\ c \in DOMAIN cases'
          /\ cases'[c].yes_votes >= cases[c].yes_votes
          /\ cases'[c].no_votes >= cases[c].no_votes
          /\ cases'[c].total_participants >= cases[c].total_participants]_vars

UnlikeAt(p, pc) == req[p].op = "unlike" /\ req[p].pc = pc /\ Stepped(p)

\* the like of slot p went through and the unlike of slot q, by the same user
\* on the same argument, went through after it
LikedThenUnliked(p, q) ==
    /\ req[p].op = "like" /\ req[p].pc = "ok"
    /\ req[q].op = "unlike" /\ req[q].pc = "ok"
    /\ req[q].user = req[p].user /\ req[q].arg = req[p].arg
    /\ req[q].case = req[p].case
    /\ <<req[p].user, req[p].arg>> \notin arglikes

\* C32: an unlike by a user who has no ArgumentVote row for the argument ends
\* in an error and none of its steps changes the store; when a like that went
\* through is followed by the same user's unlike of the same argument, the
\* argument's votes and the user's liked_arguments are again what the like
\* read before it wrote, the like only added and the unlike only removed the
\* user's ArgumentVote row, and the list is below the limit, so a like is
\* possible again.
C32_UnlikeUndoesLike ==
    /\ [][\A p \in Slots :
            /\ UnlikeAt(p, "find_arg") => UNCHANGED store
            /\ (UnlikeAt(p, "find_like")
                   /\ <<req[p].user, req[p].arg>> \notin arglikes)
                  => req'[p].pc = "err" /\ UNCHANGED store
            /\ (req[p].op = "like" /\ Stepped(p))
                  => /\ arglikes \subseteq arglikes'
                     /\ arglikes' \subseteq arglikes \cup {<<req[p].user, req[p].arg>>}
            /\ (req[p].op = "unlike" /\ Stepped(p))
                  => arglikes' \in {arglikes, arglikes \ {<<req[p].user, req[p].arg>>}}]_vars
    /\ [](\A p, q \in Slots :
            LikedThenUnliked(p, q) =>
               LET i == VoteIdx(req[p].user, req[p].case)
               IN /\ arguments[req[p].arg].votes = req[p].a_votes
                  /\ votes[i].liked_arguments = req[p].liked
                  /\ ~LikeLimitReached(votes[i].liked_arguments))

\* user 1, with two likes, liked a third argument and took the like back
C32_Witness ==
    \E p, q \in Slots :
        /\ LikedThenUnliked(p, q)
        /\ Len(req[p].liked) = MaxLikes - 1
        /\ req[p].a_votes = 0
        /\ Cardinality(arglikes) = MaxLikes - 1

\* C33: in every state each case has at most 3 arguments flagged is_top_3 and
\* every flagged argument belongs to a closed case, also when a run of the
\* sweep fails between flagging and closing and a later run takes the case up
\* again.
C33_TopThreeOnlyOnClosed ==
    \A c \in DOMAIN cases :
        /\ Cardinality(FlaggedArgs(c)) <= 3
        /\ FlaggedArgs(c) # {} => cases[c].status = "closed"

PendingCases == {c \in DOMAIN cases : cases[c].status = "pending_moderation"}

\* C34: a case created through POST /cases starts pending_moderation with
\* closes_at unset; a case pending moderation keeps that status in every step;
\* and in every state it has no UserVote, Argument, ArgumentVote or Reward.
C34_PendingStaysPending ==
    /\ [][/\ \A c \in DOMAIN cases' \ DOMAIN cases :
                ~cases'[c].is_ai_generated =>
                    /\ cases'[c].status = "pending_moderation"
                    /\ cases'[c].closes_at = None
          /\ \A c \in PendingCases :
               c \in DOMAIN cases' /\ cases'[c].status = "pending_moderation"]_vars
    /\ [](\A c \in PendingCases :
            /\ cases[c].closes_at = None
            /\ VoteRows(c) = {}
            /\ CaseArgs(c) = {}
            /\ \A l \in arglikes : ArgExists(l[2]) => arguments[l[2]].case_id # c
            /\ \A r \in DOMAIN rewards : rewards[r].case_id # c
            /\ cases[c].total_participants = 0)

\* a vote on a case pending moderation has been rejected, and the case is
\* still pending at the end of the clock, after the sweep closed the seeded case
C34_Witness ==
    /\ req[1].op = "vote" /\ req[1].pc = "err"
    /\ req[1].case \in PendingCases
    /\ now = MaxTime
    /\ cases[1].status = "closed"

\* C35: once a case is closed, no step adds or changes a UserVote row of it or
\* changes its yes_votes, no_votes or total_participants, however a vote
\* request and the sweep interleave.
C35_ClosedVotesFrozen ==
    [][\A c \in DOMAIN cases :
          cases[c].status = "closed" =>
             /\ c \in DOMAIN cases'
             /\ {votes'[i] : i \in {j \in DOMAIN votes' : votes'[j].case_id = c}}
                   = {votes[i] : i \in VoteRows(c)}
             /\ cases'[c].yes_votes = cases[c].yes_votes
             /\ cases'[c].no_votes = cases[c].no_votes
             /\ cases'[c].total_participants = cases[c].total_participants]_vars

\* C36: once a case is closed, no step of a like or unlike request sent after
\* the closure changes the votes of one of its arguments, an ArgumentVote row
\* on one of them or a liked_arguments list of one of its UserVote rows.
C36_ClosedLikesFrozen ==
    [][\A c \in DOMAIN cases :
          cases[c].status = "closed" =>
             /\ \A a \in CaseArgs(c) :
                   /\ a \in DOMAIN arguments'
                   /\ arguments'[a].votes = arguments[a].votes
                   /\ LikeRows(a) = {l \in arglikes' : l[2] = a}
             /\ \A i \in VoteRows(c) :
                   /\ i \in DOMAIN votes'
                   /\ votes'[i].liked_arguments = votes[i].liked_arguments]_vars

\* C37: with requests running one at a time, no step gives an argument to a
\* case that has fewer than 3 arguments, whatever votes, likes, unlikes and
\* submissions are sent; a case without arguments stays without arguments.
C37_FewArgumentsNeverGrow ==
    [][\A c \in DOMAIN cases :
          Cardinality(CaseArgs(c)) < 3 =>
             {a \in DOMAIN arguments' : arguments'[a].case_id = c} = CaseArgs(c)]_vars

\* a submission went through on the case with 3 arguments, and the submission
\* of a user who voted on the case with one argument and likes it was rejected
C37_Witness ==
    /\ req[1].op = "submit" /\ req[1].pc = "err"
    /\ Cardinality(CaseArgs(req[1].case)) = 1
    /\ LET i == VoteIdx(req[1].user, req[1].case)
       IN /\ i # None
          /\ Range(votes[i].liked_arguments) = CaseArgs(req[1].case)
    /\ Len(arguments) = MaxArgs

\* C38: with the monitor run again and again and every lookup answered, a
\* reward that is processing is eventually completed or failed, whatever the
\* ledger answers.
C38_ProcessingSettles ==
    \A r \in 1..NRewards :
        (r \in DOMAIN rewards /\ rewards[r].status = "processing")
            ~> (rewards[r].status \in {"completed", "failed"})

\* C39: in every state a user has written at most one argument of a case,
\* however that user's concurrent submissions interleave; and no step sets a
\* UserVote row's has_submitted_arg back to false.
C39_OneArgumentPerUser ==
    /\ [](\A a, b \in DOMAIN arguments :
            (/\ arguments[a].user_id \in Users
             /\ arguments[a].user_id = arguments[b].user_id
             /\ arguments[a].case_id = arguments[b].case_id) => a = b)
    /\ [][\A i \in DOMAIN votes :
            votes[i].has_submitted_arg =>
               i \in DOMAIN votes' /\ votes'[i].has_submitted_arg]_vars

====
